---- MODULE Spec2Model ----
(***************************************************************************)
(* NaiveExecutor (paddle/fluid/framework/naive_executor.cc): the operator  *)
(* list, the hook lists, variable creation in a scope hierarchy and the    *)
(* cluster-buffer reuse plan, as a state machine.                          *)
(***************************************************************************)
EXTENDS Integers, Sequences, FiniteSets, TLC

VARIABLES
  scope_,             \* NaiveExecutor::scope_ (0 = nullptr)
  ops_,               \* NaiveExecutor::ops_, in list order
  input_hookfuncs_,   \* NaiveExecutor::input_hookfuncs_
  output_hookfuncs_,  \* NaiveExecutor::output_hookfuncs_
  reuse_cache_,       \* op position -> (tensor object -> cluster id)
  cluster_buffer_,    \* cluster id + 1 -> tensor object (Null = unset slot)
  interpreter_core_,  \* attached InterpreterCore (its hook lists), or NoCore
  scopes,             \* the Scope objects that exist
  vars_,              \* Scope::vars_ of every scope: scope -> name -> Variable
  pc,                 \* "idle", the pending step of Run(), or "done" (a call is returning)
  cur,                \* position in ops_ of the operator Run() is at
  log,                \* calls observed during the current Run() or RunInterpreterCore()
  lastCall,           \* the call that is returning and its outcome
  runsDone,           \* Run() calls that returned or threw since ops_ last changed
  execCount,          \* op position -> executions since ops_ last changed
  failed,             \* an operator failed since ops_ last changed
  cvDone,             \* the <<block, persistable, scope>> of completed CreateVariables calls
  produced,           \* tensor object -> its memory size when its operator finished, this Run()
  other,              \* a second executor instance while the thread of this one is not running
  applied             \* the function evaluated step by step: its arguments, progress and value

vars_exec  == <<scope_, ops_, input_hookfuncs_, output_hookfuncs_,
                reuse_cache_, cluster_buffer_, interpreter_core_>>
vars_scope == <<scopes, vars_>>
vars_run   == <<pc, cur>>
vars_obs   == <<log, lastCall, runsDone, execCount, failed, cvDone, produced>>
vars       == <<vars_exec, vars_scope, vars_run, vars_obs, other, applied>>

----------------------------------------------------------------------------
(* Bounds *)
MaxOpList    == 3   \* longest operator list kept
MaxHooks     == 2   \* hooks registered per list
MaxRuns      == 2   \* Run() calls counted since ops_ last changed
MaxNewScopes == 1   \* scopes the executor creates itself
MaxSize      == 2   \* largest tensor size an operator produces
MaxLen       == 5   \* longest array a span is made over
MaxActions   == 2   \* actions of one op patch
MaxGridDim   == 4   \* largest gridDim.x of a direct kernel launch
MaxBlockDim  == 4   \* largest blockDim.x of a direct kernel launch
MaxThreads   == 8   \* most threads of a direct kernel launch

----------------------------------------------------------------------------
(* The caller's world: scopes, program description, hooks *)

NullScope == 0
RootScope == 1      \* has no parent
MidScope  == 2      \* child of RootScope
LeafScope == 3      \* child of MidScope
SelfScope == 4      \* malformed: its own parent
SiblingScope == 5 + MaxNewScopes   \* a second child of RootScope
RingScopeA == 6 + MaxNewScopes     \* malformed: child of RingScopeB
RingScopeB == 7 + MaxNewScopes     \* malformed: child of RingScopeA
CallerScopes == {RootScope, MidScope, LeafScope, SelfScope}
ExistingScopes == CallerScopes \cup {SiblingScope, RingScopeA, RingScopeB}
ScopeIds == 1..(7 + MaxNewScopes)

parent(s) ==
  CASE s = MidScope  -> RootScope
    [] s = LeafScope -> MidScope
    [] s = SelfScope -> SelfScope
    [] s = SiblingScope -> RootScope
    [] s = RingScopeA -> RingScopeB
    [] s = RingScopeB -> RingScopeA
    [] OTHER         -> NullScope

kEmptyVarName == "@EMPTY@"

OpDesc(t, o) == [type |-> t, outs |-> o]
VarDesc(n, p, k) == [name |-> n, persistable |-> p, kind |-> k]

\* ProgramDesc: block id -> [ops: AllOps(), vars: AllVars()]
Desc == <<
  [ops  |-> << OpDesc("feed", <<"t1">>), OpDesc("relu", <<"t1">>),
               OpDesc("scale", <<"t2">>), OpDesc("while", <<"t3">>),
               OpDesc("fetch", <<"out">>) >>,
   vars |-> << VarDesc("t1", FALSE, "dense"), VarDesc("t2", FALSE, "dense"),
               VarDesc("t3", FALSE, "dense"), VarDesc("X", FALSE, "dense"),
               VarDesc("Y", FALSE, "dense"), VarDesc("s", FALSE, "other") >>],
  [ops  |-> << OpDesc("relu", <<"x">>), OpDesc("fetch", <<"out">>),
               OpDesc("feed", <<"x">>), OpDesc("conditional_block", <<"x">>) >>,
   vars |-> << VarDesc("w", TRUE, "dense"), VarDesc(kEmptyVarName, FALSE, "dense"),
               VarDesc("x", FALSE, "dense"), VarDesc(kEmptyVarName, TRUE, "dense"),
               VarDesc("v", TRUE, "other") >>],
  [ops  |-> << OpDesc("feed", <<"x">>), OpDesc("fetch", <<"out">>) >>,
   vars |-> << >>],
  [ops  |-> << OpDesc("relu", <<"t1">>), OpDesc("scale", <<"t2">>) >>,
   vars |-> << VarDesc("t1", FALSE, "dense"), VarDesc("t2", FALSE, "dense") >>],
  [ops  |-> << OpDesc("relu", <<"t1", "s">>), OpDesc("scale", <<"Z", "t2">>) >>,
   vars |-> << >>]
>>
BlockIds == 1..Len(Desc)
ExecBlocks == 1..3   \* the blocks with feed/fetch descriptors

Names == {"t1", "t2", "t3", "X", "Y", "Z", "s", "w", "x", "v", kEmptyVarName}
HookIds == {1, 2}
Sizes == 1..MaxSize

----------------------------------------------------------------------------
(* Sequence helpers *)

IsPrefix(s, t) == Len(s) <= Len(t) /\ \A k \in 1..Len(s) : s[k] = t[k]

RECURSIVE Flatten(_)
Flatten(ss) == IF ss = << >> THEN << >> ELSE Head(ss) \o Flatten(Tail(ss))

----------------------------------------------------------------------------
(* Scope, Variable and DenseTensor *)

\* A Variable: kind "none" = no such variable, "uninit" = created and not
\* initialized; obj = the storage object (tensor) it holds; buf = the
\* allocation backing the tensor; msize = memory_size(), the capacity of
\* that allocation (0 = no allocation); dims = the logical size the tensor's
\* shape describes.  Objects and allocations are named <<scope, name, serial>> after the variable they
\* were created for; Null is the null pointer.
Null == << >>

NoVar == [kind |-> "none", obj |-> Null, buf |-> Null, msize |-> 0, dims |-> 0]

EmptyScopes == [s \in ScopeIds |-> [n \in Names |-> NoVar]]

Slots == ScopeIds \X Names

UsedBufs(vs) == {vs[sn[1]][sn[2]].buf : sn \in Slots} \ {Null}

\* A storage object that is not the one the variable holds now.
NewObj(vs, s, n) == IF vs[s][n].obj = <<s, n, 1>> THEN <<s, n, 2>> ELSE <<s, n, 1>>

\* An allocation no tensor holds.
NewBuf(vs, s, n) ==
  <<s, n, CHOOSE k \in 1..(Cardinality(UsedBufs(vs)) + 1) :
            /\ <<s, n, k>> \notin UsedBufs(vs)
            /\ \A j \in 1..(k - 1) : <<s, n, j>> \in UsedBufs(vs)>>

\* Scope::FindVar: the scope of the nearest variable of that name, walking
\* the parent chain; 0 when there is none.
RECURSIVE FindVar(_, _, _)
FindVar(vs, s, n) ==
  IF s = NullScope THEN NullScope
  ELSE IF vs[s][n].kind # "none" THEN s
  ELSE FindVar(vs, parent(s), n)

\* Scope::Var: create-if-absent in the scope itself.
Var(vs, s, n) ==
  IF vs[s][n].kind # "none" THEN vs
  ELSE [vs EXCEPT ![s][n] = [NoVar EXCEPT !.kind = "uninit"]]

\* InitializeVariable: fresh, zero-initialized storage of the given kind.
InitializeVariable(vs, s, n, kind) ==
  [vs EXCEPT ![s][n] = [kind |-> kind, obj |-> NewObj(vs, s, n),
                        buf |-> Null, msize |-> 0, dims |-> 0]]

\* The tensor a phi::DenseTensor* points to.
Tensor(vs, p) == vs[p[1]][p[2]]
memory_size(vs, p) == Tensor(vs, p).msize

\* DenseTensor::ShareBufferWith(src, only_buffer = true)
ShareBufferWith(v, src) == [v EXCEPT !.buf = src.buf, !.msize = src.msize]

----------------------------------------------------------------------------
(* Observation records *)

\* One call observed inside Run(), on operator position op: kind is "flag"
\* (SetIsCalledByExecutor(false)), "in" (input hook), "set_out_hooks" and
\* "set_in_hooks" (SetOutputHooks / SetInputHooks, arg = the list passed),
\* "run" (op->Run), "reuse" (cluster bookkeeping), "out" (output hook).
EvArg(kind, hook, op, arg) == [kind |-> kind, hook |-> hook, op |-> op, arg |-> arg]
Ev(kind, hook, op) == EvArg(kind, hook, op, << >>)

\* A call on the executor, its arguments and its outcome; NoCall while the
\* caller is not inside a call that has just finished.
\* again: the same CreateVariables call had completed before.
\* For MakeReusePlan, block is the reuse table and scope the iteration order
\* of its clusters; for FindTensor, block is the requested name and scope
\* the names the error message is formatted with.
Call(api, sc, b, p, r) ==
  [api |-> api, scope |-> sc, block |-> b, persistable |-> p, result |-> r,
   again |-> api = "CreateVariables" /\ <<b, p, sc>> \in cvDone]

NoCall == Call("none", 0, 0, FALSE, "ok")

\* No function under step-by-step evaluation.
NoApp == [fn |-> "none"]

\* No second executor instance.
NoOther == [who |-> 0, mixed |-> FALSE, parked |-> << >>, script |-> << >>]

----------------------------------------------------------------------------
(* NaiveExecutor::Prepare and CreateOps *)

\* OpRegistry::CreateOp: the operator built from descriptor k of the block.
CreateOp(block_id, k) ==
  [type |-> Desc[block_id].ops[k].type, outs |-> Desc[block_id].ops[k].outs,
   block |-> block_id, index |-> k]

\* CreateOps that forgets to skip fetch descriptors.
RECURSIVE CreateOpsFrom_KeepFetch(_, _, _)
CreateOpsFrom_KeepFetch(ops, block_id, k) ==
  IF k > Len(Desc[block_id].ops) THEN ops
  ELSE IF Desc[block_id].ops[k].type = "feed"
       THEN CreateOpsFrom_KeepFetch(ops, block_id, k + 1)
       ELSE CreateOpsFrom_KeepFetch(Append(ops, CreateOp(block_id, k)),
                                    block_id, k + 1)

RECURSIVE CreateOpsFrom(_, _, _)
CreateOpsFrom(ops, block_id, k) ==
  IF k > Len(Desc[block_id].ops) THEN ops
  ELSE IF Desc[block_id].ops[k].type = "feed" \/ Desc[block_id].ops[k].type = "fetch"
       THEN CreateOpsFrom(ops, block_id, k + 1)
       ELSE CreateOpsFrom(Append(ops, CreateOp(block_id, k)), block_id, k + 1)

CreateOps(ops, block_id) == CreateOpsFrom(ops, block_id, 1)

\* new framework::Scope
NewScope == CHOOSE s \in ScopeIds \ scopes : \A t \in ScopeIds \ scopes : s <= t

\* Prepare giving the executor a scope of its own whatever the argument.
Prepare_AlwaysNew(scope, block_id) ==
  /\ pc = "idle"
  /\ pc' = "done"
  /\ Len(CreateOps(ops_, block_id)) <= MaxOpList
  /\ scopes # ScopeIds
  /\ scope_' = NewScope
  /\ scopes' = scopes \cup {NewScope}
  /\ ops_' = CreateOps(ops_, block_id)
  /\ lastCall' = Call("Prepare", scope, block_id, FALSE, "ok")
  /\ runsDone' = 0
  /\ execCount' = [i \in 1..Len(ops_') |-> 0]
  /\ failed' = FALSE
  /\ UNCHANGED <<input_hookfuncs_, output_hookfuncs_, reuse_cache_,
                 cluster_buffer_, interpreter_core_, vars_, cur, log,
                 cvDone, produced>>
  /\ UNCHANGED <<other, applied>>

Prepare(scope, block_id) ==
  /\ pc = "idle"
  /\ pc' = "done"
  /\ Len(CreateOps(ops_, block_id)) <= MaxOpList
  /\ IF scope = NullScope
       THEN /\ scopes # ScopeIds
            /\ scope_' = NewScope
            /\ scopes' = scopes \cup {NewScope}
       ELSE /\ scope_' = scope
            /\ scopes' = scopes
  /\ ops_' = CreateOps(ops_, block_id)
  /\ lastCall' = Call("Prepare", scope, block_id, FALSE, "ok")
  /\ runsDone' = 0
  /\ execCount' = [i \in 1..Len(ops_') |-> 0]
  /\ failed' = FALSE
  /\ UNCHANGED <<input_hookfuncs_, output_hookfuncs_, reuse_cache_,
                 cluster_buffer_, interpreter_core_, vars_, cur, log,
                 cvDone, produced>>
  /\ UNCHANGED <<other, applied>>

\* NaiveExecutor::Prepare(Scope*): the scope only
PrepareScope(scope) ==
  /\ pc = "idle"
  /\ pc' = "done"
  /\ IF scope = NullScope
       THEN /\ scopes # ScopeIds
            /\ scope_' = NewScope
            /\ scopes' = scopes \cup {NewScope}
       ELSE /\ scope_' = scope
            /\ scopes' = scopes
  /\ lastCall' = Call("PrepareScope", scope, 0, FALSE, "ok")
  /\ UNCHANGED <<ops_, input_hookfuncs_, output_hookfuncs_, reuse_cache_,
                 cluster_buffer_, interpreter_core_, vars_, cur, log,
                 runsDone, execCount, failed, cvDone, produced>>
  /\ UNCHANGED <<other, applied>>

----------------------------------------------------------------------------
(* RegisterInputHook / RegisterOutputHook *)

\* interpreter_core_ == nullptr
NoCore == [attached |-> FALSE, in_hooks |-> << >>, out_hooks |-> << >>,
           scope |-> NullScope]

RegisterOutputHook(h) ==
  /\ pc = "idle"
  /\ pc' = "done"
  /\ Len(output_hookfuncs_) < MaxHooks
  /\ output_hookfuncs_' = Append(output_hookfuncs_, h)
  /\ interpreter_core_' =
       IF interpreter_core_ # NoCore
         THEN [interpreter_core_ EXCEPT !.out_hooks = output_hookfuncs_']
         ELSE interpreter_core_
  /\ lastCall' = Call("RegisterOutputHook", 0, 0, FALSE, "ok")
  /\ UNCHANGED <<scope_, ops_, input_hookfuncs_, reuse_cache_, cluster_buffer_,
                 scopes, vars_, cur, log, runsDone, execCount, failed,
                 cvDone, produced>>
  /\ UNCHANGED <<other, applied>>

\* RegisterInputHook putting the hook at the front of the list.
RegisterInputHook_Prepend(h) ==
  /\ pc = "idle"
  /\ pc' = "done"
  /\ Len(input_hookfuncs_) < MaxHooks
  /\ input_hookfuncs_' = <<h>> \o input_hookfuncs_
  /\ interpreter_core_' =
       IF interpreter_core_ # NoCore
         THEN [interpreter_core_ EXCEPT !.in_hooks = input_hookfuncs_']
         ELSE interpreter_core_
  /\ lastCall' = Call("RegisterInputHook", 0, 0, FALSE, "ok")
  /\ UNCHANGED <<scope_, ops_, output_hookfuncs_, reuse_cache_, cluster_buffer_,
                 scopes, vars_, cur, log, runsDone, execCount, failed,
                 cvDone, produced>>
  /\ UNCHANGED <<other, applied>>

RegisterInputHook(h) ==
  /\ pc = "idle"
  /\ pc' = "done"
  /\ Len(input_hookfuncs_) < MaxHooks
  /\ input_hookfuncs_' = Append(input_hookfuncs_, h)
  /\ interpreter_core_' =
       IF interpreter_core_ # NoCore
         THEN [interpreter_core_ EXCEPT !.in_hooks = input_hookfuncs_']
         ELSE interpreter_core_
  /\ lastCall' = Call("RegisterInputHook", 0, 0, FALSE, "ok")
  /\ UNCHANGED <<scope_, ops_, output_hookfuncs_, reuse_cache_, cluster_buffer_,
                 scopes, vars_, cur, log, runsDone, execCount, failed,
                 cvDone, produced>>
  /\ UNCHANGED <<other, applied>>

----------------------------------------------------------------------------
(* NaiveExecutor::Run, one step per phase of the loop body *)

\* What an operator does to one output tensor: it produces c.size bytes,
\* either in a new allocation of that size (c.alloc) or in the allocation
\* the tensor already has, when that is large enough.
ProduceChoices == [alloc : BOOLEAN, size : Sizes]

CanProduce(v, c) == c.alloc \/ v.msize >= c.size

Produce(vs, s, n, c) ==
  IF c.alloc
    THEN [vs EXCEPT ![s][n].buf = NewBuf(vs, s, n),
                    ![s][n].msize = c.size, ![s][n].dims = c.size]
    ELSE [vs EXCEPT ![s][n].dims = c.size]

\* The output names of op that name a dense tensor reachable from scope_.
IsDenseOut(vs, sc, n) ==
  sc # NullScope /\ FindVar(vs, sc, n) # NullScope
    /\ vs[FindVar(vs, sc, n)][n].kind = "dense"

\* OperatorBase::Run on the outputs, in order; cs[k] is the choice for outs[k].
RECURSIVE OpRunFrom(_, _, _, _, _)
OpRunFrom(vs, sc, outs, cs, k) ==
  IF k > Len(outs) THEN vs
  ELSE IF IsDenseOut(vs, sc, outs[k])
       THEN OpRunFrom(Produce(vs, FindVar(vs, sc, outs[k]), outs[k], cs[k]),
                      sc, outs, cs, k + 1)
       ELSE OpRunFrom(vs, sc, outs, cs, k + 1)

\* OpRun resolving the output names in the caller's root scope, whatever
\* scope it is given.
OpRun_InRootScope(vs, sc, op, cs) == OpRunFrom(vs, RootScope, op.outs, cs, 1)

OpRun(vs, sc, op, cs) == OpRunFrom(vs, sc, op.outs, cs, 1)

OpRunAllowed(vs, sc, op, cs) ==
  \A k \in 1..Len(op.outs) :
    IF IsDenseOut(vs, sc, op.outs[k])
      THEN CanProduce(vs[FindVar(vs, sc, op.outs[k])][op.outs[k]], cs[k])
      ELSE cs[k] = [alloc |-> TRUE, size |-> 1]

\* The tensor objects the operator writes.
OutTensors(vs, sc, op) ==
  {vs[FindVar(vs, sc, op.outs[k])][op.outs[k]].obj :
     k \in {j \in 1..Len(op.outs) : IsDenseOut(vs, sc, op.outs[j])}}

\* The tensors some operator recorded under cluster id.
ClusterTensors(cache, id) ==
  {t \in UNION {DOMAIN cache[o] : o \in DOMAIN cache} :
     \E o \in DOMAIN cache : t \in DOMAIN cache[o] /\ cache[o][t] = id}

\* ShareCluster re-aliasing the new canonical tensor only.
ShareCluster_CanonicalOnly(vs, cache, cb, id) ==
  [s \in ScopeIds |-> [n \in Names |->
     IF vs[s][n].obj \in ClusterTensors(cache, id) /\ vs[s][n].obj = cb[id + 1]
       THEN ShareBufferWith(vs[s][n], Tensor(vs, cb[id + 1]))
       ELSE vs[s][n]]]

\* ShareCluster assigning the canonical tensor, shape included, to every
\* tensor of the cluster.
ShareCluster_CopyTensor(vs, cache, cb, id) ==
  [s \in ScopeIds |-> [n \in Names |->
     IF vs[s][n].obj \in ClusterTensors(cache, id)
       THEN [Tensor(vs, cb[id + 1]) EXCEPT !.obj = vs[s][n].obj]
       ELSE vs[s][n]]]

\* ShareCluster without the test of the cluster id on line 140.
ShareCluster_AllClusters(vs, cache, cb, id) ==
  [s \in ScopeIds |-> [n \in Names |->
     IF \E i \in 0..(Len(cb) - 1) : vs[s][n].obj \in ClusterTensors(cache, i)
       THEN ShareBufferWith(vs[s][n], Tensor(vs, cb[id + 1]))
       ELSE vs[s][n]]]

\* Lines 138-145: every tensor recorded under the cluster shares the buffer
\* of the cluster's canonical tensor.
ShareCluster(vs, cache, cb, id) ==
  [s \in ScopeIds |-> [n \in Names |->
     IF vs[s][n].obj \in ClusterTensors(cache, id)
       THEN ShareBufferWith(vs[s][n], Tensor(vs, cb[id + 1]))
       ELSE vs[s][n]]]

\* UpdateClusters replacing the canonical tensor by one of the same size too.
RECURSIVE UpdateClusters_AtLeast(_, _, _, _, _)
UpdateClusters_AtLeast(st, cache, o, order, k) ==
  IF k > Len(order) THEN st
  ELSE LET t  == order[k]
           id == cache[o][t]
       IN  IF memory_size(st.vs, t) >= memory_size(st.vs, st.cb[id + 1])
             THEN LET cb2 == [st.cb EXCEPT ![id + 1] = t]
                  IN  UpdateClusters_AtLeast(
                        [cb |-> cb2, vs |-> ShareCluster(st.vs, cache, cb2, id)],
                        cache, o, order, k + 1)
             ELSE UpdateClusters_AtLeast(st, cache, o, order, k + 1)

\* UpdateClusters replacing the canonical tensor whenever the sizes differ.
RECURSIVE UpdateClusters_AnyDifferent(_, _, _, _, _)
UpdateClusters_AnyDifferent(st, cache, o, order, k) ==
  IF k > Len(order) THEN st
  ELSE LET t  == order[k]
           id == cache[o][t]
       IN  IF memory_size(st.vs, t) # memory_size(st.vs, st.cb[id + 1])
             THEN LET cb2 == [st.cb EXCEPT ![id + 1] = t]
                  IN  UpdateClusters_AnyDifferent(
                        [cb |-> cb2, vs |-> ShareCluster(st.vs, cache, cb2, id)],
                        cache, o, order, k + 1)
             ELSE UpdateClusters_AnyDifferent(st, cache, o, order, k + 1)

\* UpdateClusters replacing the canonical tensor without sharing its buffer.
RECURSIVE UpdateClusters_NoShare(_, _, _, _, _)
UpdateClusters_NoShare(st, cache, o, order, k) ==
  IF k > Len(order) THEN st
  ELSE LET t  == order[k]
           id == cache[o][t]
       IN  IF memory_size(st.vs, t) > memory_size(st.vs, st.cb[id + 1])
             THEN LET cb2 == [st.cb EXCEPT ![id + 1] = t]
                  IN  UpdateClusters_NoShare(
                        [cb |-> cb2, vs |-> st.vs],
                        cache, o, order, k + 1)
             ELSE UpdateClusters_NoShare(st, cache, o, order, k + 1)

\* Lines 126-147 for the entries of one operator, visited in the order
\* given; st = [cb: cluster_buffer_, vs: vars_].
RECURSIVE UpdateClusters(_, _, _, _, _)
UpdateClusters(st, cache, o, order, k) ==
  IF k > Len(order) THEN st
  ELSE LET t  == order[k]
           id == cache[o][t]
       IN  IF memory_size(st.vs, t) > memory_size(st.vs, st.cb[id + 1])
             THEN LET cb2 == [st.cb EXCEPT ![id + 1] = t]
                  IN  UpdateClusters(
                        [cb |-> cb2, vs |-> ShareCluster(st.vs, cache, cb2, id)],
                        cache, o, order, k + 1)
             ELSE UpdateClusters(st, cache, o, order, k + 1)

\* The iteration orders of an unordered_map with the given keys.
Orders(keys) ==
  {q \in [1..Cardinality(keys) -> keys] :
     \A a, b \in 1..Cardinality(keys) : a # b => q[a] # q[b]}

RunReturn ==
  /\ pc' = "done"
  /\ runsDone' = runsDone + 1
  /\ lastCall' = Call("Run", 0, 0, FALSE, "ok")

RunBegin ==
  /\ pc = "idle"
  /\ runsDone < MaxRuns
  /\ log' = log
  /\ produced' = << >>
  /\ IF ops_ = << >>
       THEN RunReturn /\ cur' = cur
       ELSE /\ pc' = "in"
            /\ cur' = 1
            /\ UNCHANGED <<runsDone, lastCall>>
  /\ UNCHANGED <<vars_exec, vars_scope, execCount, failed, cvDone>>
  /\ UNCHANGED <<other, applied>>

\* StepInput calling the input hooks last-registered first.
StepInput_Reversed ==
  /\ pc = "in"
  /\ log' = log \o <<Ev("flag", 0, cur)>>
                \o [k \in 1..Len(input_hookfuncs_) |->
                      Ev("in", input_hookfuncs_[Len(input_hookfuncs_) + 1 - k], cur)]
  /\ pc' = "exec"
  /\ UNCHANGED <<vars_exec, vars_scope, cur, lastCall, runsDone, execCount,
                 failed, cvDone, produced>>
  /\ UNCHANGED <<other, applied>>

\* lines 104-108: clear the flag, call the input hooks in list order
StepInput ==
  /\ pc = "in"
  /\ log' = log \o <<Ev("flag", 0, cur)>>
                \o [k \in 1..Len(input_hookfuncs_) |->
                      Ev("in", input_hookfuncs_[k], cur)]
  /\ pc' = "exec"
  /\ UNCHANGED <<vars_exec, vars_scope, cur, lastCall, runsDone, execCount,
                 failed, cvDone, produced>>
  /\ UNCHANGED <<other, applied>>

\* StepExec handing the hook lists to operators of every type.
StepExec_HooksToEveryOp ==
  /\ pc = "exec"
  /\ LET propEv ==
           <<EvArg("set_out_hooks", 0, cur, output_hookfuncs_),
             EvArg("set_in_hooks", 0, cur, input_hookfuncs_)>>
     IN  /\ \/ /\ \E cs \in [1..Len(ops_[cur].outs) -> ProduceChoices] :
                    /\ OpRunAllowed(vars_, scope_, ops_[cur], cs)
                    /\ vars_' = OpRun(vars_, scope_, ops_[cur], cs)
                    /\ produced' =
                         [t \in DOMAIN produced \cup OutTensors(vars_, scope_, ops_[cur]) |->
                            IF t \in OutTensors(vars_, scope_, ops_[cur])
                              THEN memory_size(vars_', t) ELSE produced[t]]
               /\ log' = log \o propEv \o <<Ev("run", 0, cur)>>
               /\ execCount' = [execCount EXCEPT ![cur] = @ + 1]
               /\ pc' = "reuse"
               /\ UNCHANGED <<lastCall, failed, runsDone>>
            \/ /\ log' = log \o propEv
               /\ pc' = "done"
               /\ failed' = TRUE
               /\ runsDone' = runsDone + 1
               /\ lastCall' = Call("Run", 0, 0, FALSE, "error")
               /\ UNCHANGED <<vars_, produced, execCount>>
  /\ UNCHANGED <<vars_exec, scopes, cur, cvDone>>
  /\ UNCHANGED <<other, applied>>

\* StepExec calling the output hooks of an operator that failed.
StepExec_HooksOnFailure ==
  /\ pc = "exec"
  /\ LET propEv ==
           IF ops_[cur].type = "while" \/ ops_[cur].type = "conditional_block"
             THEN <<EvArg("set_out_hooks", 0, cur, output_hookfuncs_),
                    EvArg("set_in_hooks", 0, cur, input_hookfuncs_)>>
             ELSE << >>
     IN  /\ \/ /\ \E cs \in [1..Len(ops_[cur].outs) -> ProduceChoices] :
                    /\ OpRunAllowed(vars_, scope_, ops_[cur], cs)
                    /\ vars_' = OpRun(vars_, scope_, ops_[cur], cs)
                    /\ produced' =
                         [t \in DOMAIN produced \cup OutTensors(vars_, scope_, ops_[cur]) |->
                            IF t \in OutTensors(vars_, scope_, ops_[cur])
                              THEN memory_size(vars_', t) ELSE produced[t]]
               /\ log' = log \o propEv \o <<Ev("run", 0, cur)>>
               /\ execCount' = [execCount EXCEPT ![cur] = @ + 1]
               /\ pc' = "reuse"
               /\ UNCHANGED <<lastCall, failed, runsDone>>
            \/ /\ log' = log \o propEv
                         \o [k \in 1..Len(output_hookfuncs_) |->
                               Ev("out", output_hookfuncs_[k], cur)]
               /\ pc' = "done"
               /\ failed' = TRUE
               /\ runsDone' = runsDone + 1
               /\ lastCall' = Call("Run", 0, 0, FALSE, "error")
               /\ UNCHANGED <<vars_, produced, execCount>>
  /\ UNCHANGED <<vars_exec, scopes, cur, cvDone>>
  /\ UNCHANGED <<other, applied>>

\* lines 110-119: hand the hook lists to a control-flow operator, run the
\* operator; its failure leaves Run().
StepExec ==
  /\ pc = "exec"
  /\ LET propEv ==
           IF ops_[cur].type = "while" \/ ops_[cur].type = "conditional_block"
             THEN <<EvArg("set_out_hooks", 0, cur, output_hookfuncs_),
                    EvArg("set_in_hooks", 0, cur, input_hookfuncs_)>>
             ELSE << >>
     IN  /\ \/ /\ \E cs \in [1..Len(ops_[cur].outs) -> ProduceChoices] :
                    /\ OpRunAllowed(vars_, scope_, ops_[cur], cs)
                    /\ vars_' = OpRun(vars_, scope_, ops_[cur], cs)
                    /\ produced' =
                         [t \in DOMAIN produced \cup OutTensors(vars_, scope_, ops_[cur]) |->
                            IF t \in OutTensors(vars_, scope_, ops_[cur])
                              THEN memory_size(vars_', t) ELSE produced[t]]
               /\ log' = log \o propEv \o <<Ev("run", 0, cur)>>
               /\ execCount' = [execCount EXCEPT ![cur] = @ + 1]
               /\ pc' = "reuse"
               /\ UNCHANGED <<lastCall, failed, runsDone>>
            \/ /\ log' = log \o propEv
               /\ pc' = "done"
               /\ failed' = TRUE
               /\ runsDone' = runsDone + 1
               /\ lastCall' = Call("Run", 0, 0, FALSE, "error")
               /\ UNCHANGED <<vars_, produced, execCount>>
  /\ UNCHANGED <<vars_exec, scopes, cur, cvDone>>
  /\ UNCHANGED <<other, applied>>

\* Line 127 can read cluster_buffer_[it.second] for every entry of operator
\* o: the index is inside the vector and the pointer there is not null.
SlotsReadable(o) ==
  \A t \in DOMAIN reuse_cache_[o] :
    /\ reuse_cache_[o][t] + 1 \in DOMAIN cluster_buffer_
    /\ cluster_buffer_[reuse_cache_[o][t] + 1] # Null

\* lines 124-148 when line 127 reads past the end of cluster_buffer_ or
\* through a null pointer: the behaviour is undefined; Run() crashes there,
\* or goes on with the clusters as they were.
StepReuseUndefined ==
  /\ pc = "reuse"
  /\ cur \in DOMAIN reuse_cache_
  /\ ~SlotsReadable(cur)
  /\ \/ /\ pc' = "done"
        /\ failed' = TRUE
        /\ runsDone' = runsDone + 1
        /\ lastCall' = Call("Run", 0, 0, FALSE, "crash")
        /\ log' = log
     \/ /\ pc' = "out"
        /\ log' = log \o <<EvArg("reuse", 0, cur,
                                  [i \in DOMAIN cluster_buffer_ |-> FALSE])>>
        /\ UNCHANGED <<failed, runsDone, lastCall>>
  /\ UNCHANGED <<vars_exec, vars_scope, cur, execCount, cvDone, produced>>
  /\ UNCHANGED <<other, applied>>

\* StepReuse that goes on to the output hooks with the clusters as they
\* were.
StepReuse_NoUpdate ==
  /\ pc = "reuse"
  /\ log' = log \o <<EvArg("reuse", 0, cur,
                            [i \in DOMAIN cluster_buffer_ |-> FALSE])>>
  /\ pc' = "out"
  /\ UNCHANGED <<vars_exec, vars_scope, cur, lastCall, runsDone, execCount,
                 failed, cvDone, produced>>
  /\ UNCHANGED <<other, applied>>

\* lines 124-148: cluster bookkeeping for the operator just run
StepReuse ==
  /\ pc = "reuse"
  /\ cur \in DOMAIN reuse_cache_ => SlotsReadable(cur)
  /\ IF cur \in DOMAIN reuse_cache_
       THEN \E order \in Orders(DOMAIN reuse_cache_[cur]) :
              LET st == UpdateClusters([cb |-> cluster_buffer_, vs |-> vars_],
                                       reuse_cache_, cur, order, 1)
              IN  /\ cluster_buffer_' = st.cb
                  /\ vars_' = st.vs
       ELSE UNCHANGED <<cluster_buffer_, vars_>>
  /\ log' = log \o <<EvArg("reuse", 0, cur,
                            [i \in DOMAIN cluster_buffer_ |->
                               cluster_buffer_'[i] # cluster_buffer_[i]])>>
  /\ pc' = "out"
  /\ UNCHANGED <<scope_, ops_, input_hookfuncs_, output_hookfuncs_, reuse_cache_,
                 interpreter_core_, scopes, cur, lastCall, runsDone, execCount,
                 failed, cvDone, produced>>
  /\ UNCHANGED <<other, applied>>

\* StepOutput whose loop stops one operator early.
StepOutput_StopEarly ==
  /\ pc = "out"
  /\ log' = log \o [k \in 1..Len(output_hookfuncs_) |->
                      Ev("out", output_hookfuncs_[k], cur)]
  /\ IF cur >= Len(ops_) - 1
       THEN RunReturn /\ cur' = cur
       ELSE /\ pc' = "in"
            /\ cur' = cur + 1
            /\ UNCHANGED <<runsDone, lastCall>>
  /\ UNCHANGED <<vars_exec, vars_scope, execCount, failed, cvDone, produced>>
  /\ UNCHANGED <<other, applied>>

\* lines 150-153: call the output hooks in list order, go to the next operator
StepOutput ==
  /\ pc = "out"
  /\ log' = log \o [k \in 1..Len(output_hookfuncs_) |->
                      Ev("out", output_hookfuncs_[k], cur)]
  /\ IF cur = Len(ops_)
       THEN RunReturn /\ cur' = cur
       ELSE /\ pc' = "in"
            /\ cur' = cur + 1
            /\ UNCHANGED <<runsDone, lastCall>>
  /\ UNCHANGED <<vars_exec, vars_scope, execCount, failed, cvDone, produced>>
  /\ UNCHANGED <<other, applied>>

----------------------------------------------------------------------------
(* PrepareInterpreterCore and RunInterpreterCore, lines 58-90 *)

\* Both overloads: a new InterpreterCore on the given scope replaces the
\* attached one; no hook list is passed to it.
PrepareInterpreterCore(scope) ==
  /\ pc = "idle"
  /\ pc' = "done"
  /\ interpreter_core_' = [attached |-> TRUE, in_hooks |-> << >>,
                           out_hooks |-> << >>, scope |-> scope]
  /\ lastCall' = Call("PrepareInterpreterCore", scope, 0, FALSE, "ok")
  /\ UNCHANGED <<scope_, ops_, input_hookfuncs_, output_hookfuncs_, reuse_cache_,
                 cluster_buffer_, vars_scope, cur, log, runsDone, execCount,
                 failed, cvDone, produced>>
  /\ UNCHANGED <<other, applied>>

\* The arguments RunInterpreterCore can be given.
FeedNames == {<< >>, <<"x">>}

\* What InterpreterCore::Run does to the variables of its scope: nothing, or
\* it produces the dense tensor of one of its variables.
InterpreterWrites(vs, sc) ==
  {vs} \cup
  {Produce(vs, FindVar(vs, sc, n), n, c) :
     n \in {m \in {"t1"} : IsDenseOut(vs, sc, m)},
     c \in {d \in ProduceChoices : d.alloc}}

\* RunInterpreterCore passing need_fetch in the place of switch_stream too.
RunInterpreterCore_FetchForStream(feed_names, need_fetch, switch_stream) ==
  /\ pc = "idle"
  /\ pc' = "done"
  /\ IF interpreter_core_.attached
       THEN /\ log' = log \o <<EvArg("interpreter_run", 0, 0,
                                     <<feed_names, need_fetch, FALSE, FALSE,
                                       need_fetch>>)>>
            /\ \E r \in {"ok", "error"} :
                 /\ lastCall' = Call("RunInterpreterCore", feed_names,
                                     <<need_fetch, switch_stream>>, FALSE, r)
                 /\ vars_' \in InterpreterWrites(vars_, interpreter_core_.scope)
       ELSE /\ \E r \in {"ok", "crash"} :
                 lastCall' = Call("RunInterpreterCore", feed_names,
                                  <<need_fetch, switch_stream>>, FALSE, r)
            /\ UNCHANGED <<log, vars_>>
  /\ UNCHANGED <<vars_exec, scopes, cur, runsDone, execCount, failed, cvDone,
                 produced>>
  /\ UNCHANGED <<other, applied>>

\* line 86: one Run call on the interpreter; the interpreter works on its
\* scope and may throw.  interpreter_core_ is dereferenced without a test:
\* on a null pointer the call is undefined, it crashes or returns.
RunInterpreterCore(feed_names, need_fetch, switch_stream) ==
  /\ pc = "idle"
  /\ pc' = "done"
  /\ IF interpreter_core_.attached
       THEN /\ log' = log \o <<EvArg("interpreter_run", 0, 0,
                                     <<feed_names, need_fetch, FALSE, FALSE,
                                       switch_stream>>)>>
            /\ \E r \in {"ok", "error"} :
                 /\ lastCall' = Call("RunInterpreterCore", feed_names,
                                     <<need_fetch, switch_stream>>, FALSE, r)
                 /\ vars_' \in InterpreterWrites(vars_, interpreter_core_.scope)
       ELSE /\ \E r \in {"ok", "crash"} :
                 lastCall' = Call("RunInterpreterCore", feed_names,
                                  <<need_fetch, switch_stream>>, FALSE, r)
            /\ UNCHANGED <<log, vars_>>
  /\ UNCHANGED <<vars_exec, scopes, cur, runsDone, execCount, failed, cvDone,
                 produced>>
  /\ UNCHANGED <<other, applied>>

----------------------------------------------------------------------------
(* NaiveExecutor::CreateVariables *)

\* lines 169-176: the ancestor without a parent
RECURSIVE RootOf(_)
RootOf(s) == IF parent(s) = NullScope THEN s ELSE RootOf(parent(s))

\* CreateVariables loop without the test for the reserved empty name.
RECURSIVE CreateVarsFrom_KeepEmptyName(_, _, _, _, _, _)
CreateVarsFrom_KeepEmptyName(vs, vds, k, persistable, scope, anc) ==
  IF k > Len(vds) THEN vs
  ELSE IF persistable # vds[k].persistable
       THEN CreateVarsFrom_KeepEmptyName(vs, vds, k + 1, persistable, scope, anc)
  ELSE IF persistable
       THEN IF FindVar(vs, anc, vds[k].name) = NullScope
              THEN CreateVarsFrom_KeepEmptyName(
                     InitializeVariable(Var(vs, anc, vds[k].name), anc,
                                        vds[k].name, vds[k].kind),
                     vds, k + 1, persistable, scope, anc)
              ELSE CreateVarsFrom_KeepEmptyName(vs, vds, k + 1, persistable, scope, anc)
  ELSE CreateVarsFrom_KeepEmptyName(
         InitializeVariable(Var(vs, scope, vds[k].name), scope,
                            vds[k].name, vds[k].kind),
         vds, k + 1, persistable, scope, anc)

\* CreateVariables loop that initializes a persistent variable even when the
\* root scope already has it.
RECURSIVE CreateVarsFrom_AlwaysInit(_, _, _, _, _, _)
CreateVarsFrom_AlwaysInit(vs, vds, k, persistable, scope, anc) ==
  IF k > Len(vds) THEN vs
  ELSE IF vds[k].name = kEmptyVarName \/ persistable # vds[k].persistable
       THEN CreateVarsFrom_AlwaysInit(vs, vds, k + 1, persistable, scope, anc)
  ELSE CreateVarsFrom_AlwaysInit(
         InitializeVariable(Var(vs, IF persistable THEN anc ELSE scope, vds[k].name),
                            IF persistable THEN anc ELSE scope,
                            vds[k].name, vds[k].kind),
         vds, k + 1, persistable, scope, anc)

\* CreateVariables loop that leaves every variable that already exists alone.
RECURSIVE CreateVarsFrom_SkipExisting(_, _, _, _, _, _)
CreateVarsFrom_SkipExisting(vs, vds, k, persistable, scope, anc) ==
  IF k > Len(vds) THEN vs
  ELSE IF vds[k].name = kEmptyVarName \/ persistable # vds[k].persistable
       THEN CreateVarsFrom_SkipExisting(vs, vds, k + 1, persistable, scope, anc)
  ELSE IF vs[IF persistable THEN anc ELSE scope][vds[k].name].kind # "none"
       THEN CreateVarsFrom_SkipExisting(vs, vds, k + 1, persistable, scope, anc)
  ELSE CreateVarsFrom_SkipExisting(
         InitializeVariable(Var(vs, IF persistable THEN anc ELSE scope, vds[k].name),
                            IF persistable THEN anc ELSE scope,
                            vds[k].name, vds[k].kind),
         vds, k + 1, persistable, scope, anc)

\* CreateVariables loop that puts persistent variables in the supplied scope.
RECURSIVE CreateVarsFrom_PersistInScope(_, _, _, _, _, _)
CreateVarsFrom_PersistInScope(vs, vds, k, persistable, scope, anc) ==
  IF k > Len(vds) THEN vs
  ELSE IF vds[k].name = kEmptyVarName \/ persistable # vds[k].persistable
       THEN CreateVarsFrom_PersistInScope(vs, vds, k + 1, persistable, scope, anc)
  ELSE IF persistable /\ FindVar(vs, scope, vds[k].name) # NullScope
       THEN CreateVarsFrom_PersistInScope(vs, vds, k + 1, persistable, scope, anc)
  ELSE CreateVarsFrom_PersistInScope(
         InitializeVariable(Var(vs, scope, vds[k].name), scope,
                            vds[k].name, vds[k].kind),
         vds, k + 1, persistable, scope, anc)

\* lines 179-200: the loop over AllVars(), from descriptor k on
RECURSIVE CreateVarsFrom(_, _, _, _, _, _)
CreateVarsFrom(vs, vds, k, persistable, scope, anc) ==
  IF k > Len(vds) THEN vs
  ELSE IF vds[k].name = kEmptyVarName
       THEN CreateVarsFrom(vs, vds, k + 1, persistable, scope, anc)
  ELSE IF persistable # vds[k].persistable
       THEN CreateVarsFrom(vs, vds, k + 1, persistable, scope, anc)
  ELSE IF persistable
       THEN IF FindVar(vs, anc, vds[k].name) = NullScope
              THEN CreateVarsFrom(
                     InitializeVariable(Var(vs, anc, vds[k].name), anc,
                                        vds[k].name, vds[k].kind),
                     vds, k + 1, persistable, scope, anc)
              ELSE CreateVarsFrom(vs, vds, k + 1, persistable, scope, anc)
  ELSE CreateVarsFrom(
         InitializeVariable(Var(vs, scope, vds[k].name), scope,
                            vds[k].name, vds[k].kind),
         vds, k + 1, persistable, scope, anc)

CreateVariablesIn(vs, block_id, persistable, scope) ==
  CreateVarsFrom(vs, Desc[block_id].vars, 1, persistable, scope, RootOf(scope))

\* CreateVariables without the check that the scope is not its own parent.
CreateVariables_NoParentCheck(block_id, persistable, scope) ==
  /\ pc = "idle"
  /\ pc' = "done"
  /\ IF scope = NullScope
       THEN /\ lastCall' = Call("CreateVariables", scope, block_id, persistable,
                                "InvalidArgument")
            /\ UNCHANGED <<vars_, cvDone>>
       ELSE /\ vars_' = CreateVarsFrom(vars_, Desc[block_id].vars, 1, persistable,
                                       scope,
                                       IF parent(scope) = scope THEN scope
                                       ELSE RootOf(scope))
            /\ cvDone' = cvDone \cup {<<block_id, persistable, scope>>}
            /\ lastCall' = Call("CreateVariables", scope, block_id, persistable,
                                "ok")
  /\ UNCHANGED <<vars_exec, scopes, cur, log, runsDone, execCount, failed,
                 produced>>
  /\ UNCHANGED <<other, applied>>

CreateVariables(block_id, persistable, scope) ==
  /\ pc = "idle"
  /\ pc' = "done"
  /\ IF scope = NullScope
       THEN /\ lastCall' = Call("CreateVariables", scope, block_id, persistable,
                                "InvalidArgument")
            /\ UNCHANGED <<vars_, cvDone>>
       ELSE IF parent(scope) = scope
       THEN /\ lastCall' = Call("CreateVariables", scope, block_id, persistable,
                                "InvalidArgument")
            /\ UNCHANGED <<vars_, cvDone>>
       ELSE /\ vars_' = CreateVariablesIn(vars_, block_id, persistable, scope)
            /\ cvDone' = cvDone \cup {<<block_id, persistable, scope>>}
            /\ lastCall' = Call("CreateVariables", scope, block_id, persistable,
                                "ok")
  /\ UNCHANGED <<vars_exec, scopes, cur, log, runsDone, execCount, failed,
                 produced>>
  /\ UNCHANGED <<other, applied>>

\* CreateVariables statement by statement: the checks of lines 163-172, the
\* walk to the ancestor of lines 173-175, the loop of lines 178-200.
CreateVariablesBegin(block_id, persistable, scope) ==
  /\ pc = "idle"
  /\ IF scope = NullScope \/ parent(scope) = scope
       THEN /\ pc' = "done"
            /\ lastCall' = Call("CreateVariables", scope, block_id, persistable,
                                "InvalidArgument")
            /\ applied' = applied
       ELSE /\ pc' = "walk"
            /\ lastCall' = lastCall
            /\ applied' = [fn |-> "CreateVariables", block |-> block_id,
                           persistable |-> persistable, scope |-> scope,
                           anc |-> scope]
  /\ UNCHANGED <<vars_exec, vars_scope, cur, log, runsDone, execCount, failed,
                 cvDone, produced, other>>

\* The walk leaving the loop at once.
HasParent_Never(anc) == FALSE

\* line 173: while (anc->parent())
HasParent(anc) == parent(anc) # NullScope

\* line 174: anc = anc->parent()
CreateVariablesWalk ==
  /\ pc = "walk"
  /\ HasParent(applied.anc)
  /\ applied' = [applied EXCEPT !.anc = parent(@)]
  /\ UNCHANGED <<vars_exec, vars_scope, pc, cur, log, lastCall, runsDone,
                 execCount, failed, cvDone, produced, other>>

CreateVariablesLoop ==
  /\ pc = "walk"
  /\ ~HasParent(applied.anc)
  /\ pc' = "done"
  /\ vars_' = CreateVarsFrom(vars_, Desc[applied.block].vars, 1,
                             applied.persistable, applied.scope, applied.anc)
  /\ cvDone' = cvDone \cup {<<applied.block, applied.persistable, applied.scope>>}
  /\ lastCall' = Call("CreateVariables", applied.scope, applied.block,
                      applied.persistable, "ok")
  /\ applied' = NoApp
  /\ UNCHANGED <<vars_exec, scopes, cur, log, runsDone, execCount, failed,
                 produced, other>>

----------------------------------------------------------------------------
(* NaiveExecutor::FindTensor and the caller's use of the tensor it returns *)

\* FindTensor looking only in scope_ itself (Scope::FindLocalVar).
FindTensorResult_LocalOnly(name) ==
  IF scope_ = NullScope THEN "PreconditionNotMet"
  ELSE IF vars_[scope_][name].kind = "none" THEN "NotFound"
  ELSE "ok"

FindTensorResult(name) ==
  IF scope_ = NullScope THEN "PreconditionNotMet"
  ELSE IF FindVar(vars_, scope_, name) = NullScope THEN "NotFound"
  ELSE "ok"

\* The arguments of the message: "No variable [%s] in current scope." has
\* the name, "Need to init scope in NaiveExecutor firstly." has none.
FindTensorMessage(name) ==
  IF FindTensorResult(name) = "NotFound" THEN <<name>> ELSE << >>

\* lines 219-224: the variable whose tensor a successful FindTensor returns,
\* as the scope that holds it and its name.
FindTensorValue(name) == <<FindVar(vars_, scope_, name), name>>

\* FindTensor looking the name up with Scope::Var, which creates it.
FindTensor_CreateIfAbsent(name) ==
  /\ pc = "idle"
  /\ pc' = "done"
  /\ IF scope_ = NullScope
       THEN /\ lastCall' = Call("FindTensor", << >>, name, FALSE, "PreconditionNotMet")
            /\ vars_' = vars_
       ELSE /\ lastCall' = Call("FindTensor", << >>, name, FALSE, "ok")
            /\ vars_' = IF FindVar(vars_, scope_, name) = NullScope
                          THEN Var(vars_, scope_, name) ELSE vars_
  /\ UNCHANGED <<vars_exec, scopes, cur, log, runsDone, execCount,
                 failed, cvDone, produced>>
  /\ UNCHANGED <<other, applied>>

FindTensor(name) ==
  /\ pc = "idle"
  /\ pc' = "done"
  /\ lastCall' = Call("FindTensor", FindTensorMessage(name), name, FALSE,
                      FindTensorResult(name))
  /\ UNCHANGED <<vars_exec, vars_scope, cur, log, runsDone, execCount,
                 failed, cvDone, produced>>
  /\ UNCHANGED <<other, applied>>

\* The caller fills the tensor FindTensor returned (Resize + mutable_data).
CallerFill(name, c) ==
  /\ pc = "idle"
  /\ pc' = "done"
  /\ FindTensorResult(name) = "ok"
  /\ vars_[FindVar(vars_, scope_, name)][name].kind = "dense"
  /\ CanProduce(vars_[FindVar(vars_, scope_, name)][name], c)
  /\ vars_' = Produce(vars_, FindVar(vars_, scope_, name), name, c)
  /\ lastCall' = Call("FindTensor", << >>, name, FALSE, "ok")
  /\ UNCHANGED <<vars_exec, scopes, cur, log, runsDone, execCount, failed,
                 cvDone, produced>>
  /\ UNCHANGED <<other, applied>>

----------------------------------------------------------------------------
(* NaiveExecutor::MakeReusePlan *)

Targets(table) == {table[n] : n \in DOMAIN table}

\* IndexOf that stops at the end of the sequence whatever it looks for.
IndexOf_Last(seq, x) == Len(seq)

\* std::find on cluster_names, lines 272-274
IndexOf(seq, x) == CHOOSE i \in 1..Len(seq) : seq[i] = x

\* std::vector::resize: truncate, or pad with null pointers
Resize(cb, n) == [i \in 1..n |-> IF i <= Len(cb) THEN cb[i] ELSE Null]

\* unordered_map::emplace: no effect when the key is present
Emplace(m, key, val) ==
  IF key \in DOMAIN m THEN m
  ELSE [x \in DOMAIN m \cup {key} |-> IF x = key THEN val ELSE m[x]]

\* Record filing every entry under the first operator of the list.
Record_UnderFirstOp(cache, o, tensor, idx) ==
  IF 1 \in DOMAIN cache
    THEN [cache EXCEPT ![1] = Emplace(cache[1], tensor, idx)]
    ELSE [x \in DOMAIN cache \cup {1} |->
            IF x = 1 THEN Emplace(<< >>, tensor, idx) ELSE cache[x]]

\* lines 282-287
Record(cache, o, tensor, idx) ==
  IF o \in DOMAIN cache
    THEN [cache EXCEPT ![o] = Emplace(cache[o], tensor, idx)]
    ELSE [x \in DOMAIN cache \cup {o} |->
            IF x = o THEN Emplace(<< >>, tensor, idx) ELSE cache[x]]

\* PlanFrom recording the entry and leaving the cluster's slot as it is.
RECURSIVE PlanFrom_RecordOnly(_, _, _, _, _)
PlanFrom_RecordOnly(st, table, cluster_names, o, k) ==
  IF o > Len(ops_) THEN st
  ELSE IF k > Len(ops_[o].outs)
       THEN PlanFrom_RecordOnly(st, table, cluster_names, o + 1, 1)
  ELSE LET name == ops_[o].outs[k]
       IN  IF name \in DOMAIN table
             THEN LET reuse_name == table[name]
                      idx        == IndexOf(cluster_names, reuse_name) - 1
                      var        == FindVar(vars_, scope_, name)
                      reuse_var  == FindVar(vars_, scope_, reuse_name)
                  IN  IF /\ var # NullScope
                         /\ reuse_var # NullScope
                         /\ vars_[var][name].kind = "dense"
                         /\ vars_[reuse_var][reuse_name].kind = "dense"
                        THEN PlanFrom_RecordOnly(
                               [cb    |-> st.cb,
                                cache |-> Record(st.cache, o,
                                                 vars_[var][name].obj, idx)],
                               table, cluster_names, o, k + 1)
                        ELSE PlanFrom_RecordOnly(st, table, cluster_names, o, k + 1)
             ELSE PlanFrom_RecordOnly(st, table, cluster_names, o, k + 1)

\* PlanFrom seeding the cluster before it looks at the variable.
RECURSIVE PlanFrom_SeedFirst(_, _, _, _, _)
PlanFrom_SeedFirst(st, table, cluster_names, o, k) ==
  IF o > Len(ops_) THEN st
  ELSE IF k > Len(ops_[o].outs)
       THEN PlanFrom_SeedFirst(st, table, cluster_names, o + 1, 1)
  ELSE LET name == ops_[o].outs[k]
       IN  IF name \in DOMAIN table
             THEN LET reuse_name == table[name]
                      idx        == IndexOf(cluster_names, reuse_name) - 1
                      var        == FindVar(vars_, scope_, name)
                      reuse_var  == FindVar(vars_, scope_, reuse_name)
                  IN  IF /\ reuse_var # NullScope
                         /\ vars_[reuse_var][reuse_name].kind = "dense"
                        THEN LET cb2 == [st.cb EXCEPT ![idx + 1] =
                                           vars_[reuse_var][reuse_name].obj]
                             IN  IF var # NullScope /\ vars_[var][name].kind = "dense"
                                   THEN PlanFrom_SeedFirst(
                                          [cb    |-> cb2,
                                           cache |-> Record(st.cache, o,
                                                            vars_[var][name].obj, idx)],
                                          table, cluster_names, o, k + 1)
                                   ELSE PlanFrom_SeedFirst(
                                          [cb |-> cb2, cache |-> st.cache],
                                          table, cluster_names, o, k + 1)
                        ELSE PlanFrom_SeedFirst(st, table, cluster_names, o, k + 1)
             ELSE PlanFrom_SeedFirst(st, table, cluster_names, o, k + 1)

\* PlanFrom seeding the cluster with the variable's own tensor.
RECURSIVE PlanFrom_SeedWithVar(_, _, _, _, _)
PlanFrom_SeedWithVar(st, table, cluster_names, o, k) ==
  IF o > Len(ops_) THEN st
  ELSE IF k > Len(ops_[o].outs)
       THEN PlanFrom_SeedWithVar(st, table, cluster_names, o + 1, 1)
  ELSE LET name == ops_[o].outs[k]
       IN  IF name \in DOMAIN table
             THEN LET reuse_name == table[name]
                      idx        == IndexOf(cluster_names, reuse_name) - 1
                      var        == FindVar(vars_, scope_, name)
                      reuse_var  == FindVar(vars_, scope_, reuse_name)
                  IN  IF /\ var # NullScope
                         /\ reuse_var # NullScope
                         /\ vars_[var][name].kind = "dense"
                         /\ vars_[reuse_var][reuse_name].kind = "dense"
                        THEN PlanFrom_SeedWithVar(
                               [cb    |-> [st.cb EXCEPT ![idx + 1] =
                                             vars_[var][name].obj],
                                cache |-> Record(st.cache, o,
                                                 vars_[var][name].obj, idx)],
                               table, cluster_names, o, k + 1)
                        ELSE PlanFrom_SeedWithVar(st, table, cluster_names, o, k + 1)
             ELSE PlanFrom_SeedWithVar(st, table, cluster_names, o, k + 1)

\* lines 268-291 from output k of operator o on; st = [cb, cache]
RECURSIVE PlanFrom(_, _, _, _, _)
PlanFrom(st, table, cluster_names, o, k) ==
  IF o > Len(ops_) THEN st
  ELSE IF k > Len(ops_[o].outs) THEN PlanFrom(st, table, cluster_names, o + 1, 1)
  ELSE LET name == ops_[o].outs[k]
       IN  IF name \in DOMAIN table
             THEN LET reuse_name == table[name]
                      idx        == IndexOf(cluster_names, reuse_name) - 1
                      var        == FindVar(vars_, scope_, name)
                      reuse_var  == FindVar(vars_, scope_, reuse_name)
                  IN  IF /\ var # NullScope
                         /\ reuse_var # NullScope
                         /\ vars_[var][name].kind = "dense"
                         /\ vars_[reuse_var][reuse_name].kind = "dense"
                        THEN PlanFrom(
                               [cb    |-> [st.cb EXCEPT ![idx + 1] =
                                             vars_[reuse_var][reuse_name].obj],
                                cache |-> Record(st.cache, o,
                                                 vars_[var][name].obj, idx)],
                               table, cluster_names, o, k + 1)
                        ELSE PlanFrom(st, table, cluster_names, o, k + 1)
             ELSE PlanFrom(st, table, cluster_names, o, k + 1)

\* cluster_names is the iteration order of the unordered_map `clusters`.
MakeReusePlan(table, cluster_names) ==
  /\ pc = "idle"
  /\ pc' = "done"
  /\ LET st == PlanFrom([cb    |-> Resize(cluster_buffer_, Len(cluster_names)),
                         cache |-> reuse_cache_],
                        table, cluster_names, 1, 1)
     IN  /\ cluster_buffer_' = st.cb
         /\ reuse_cache_' = st.cache
  /\ lastCall' = Call("MakeReusePlan", cluster_names, table, FALSE, "ok")
  /\ UNCHANGED <<scope_, ops_, input_hookfuncs_, output_hookfuncs_,
                 interpreter_core_, vars_scope, cur, log, runsDone,
                 execCount, failed, cvDone, produced>>
  /\ UNCHANGED <<other, applied>>

\* Every reuse table over these keys and targets: "s" is not a dense
\* tensor and "Z" is in no scope.
PlanKeys == {"t1", "t2", "s", "Z"}
PlanTargets == {"X", "s", "Z"}
PlanTables ==
  UNION {[K -> PlanTargets] : K \in (SUBSET PlanKeys) \ {{}}}

\* Reuse tables the memory-planning pass hands over
ReuseTables == {
  [n \in {"t1", "t2"} |-> "X"],
  [n \in {"t1", "t2", "t3"} |-> IF n = "t3" THEN "Y" ELSE "X"],
  [n \in {"t1", "t2"} |-> "t2"],
  [n \in {"t1", "t3"} |-> IF n = "t1" THEN "Z" ELSE "Y"] }

----------------------------------------------------------------------------
(* Specifications *)

\* A constructed executor; the caller's scopes exist and are empty.
Init ==
  /\ scope_ = NullScope
  /\ ops_ = << >>
  /\ input_hookfuncs_ = << >>
  /\ output_hookfuncs_ = << >>
  /\ reuse_cache_ = << >>
  /\ cluster_buffer_ = << >>
  /\ interpreter_core_ = NoCore
  /\ scopes = ExistingScopes
  /\ vars_ = EmptyScopes
  /\ pc = "idle"
  /\ cur = 0
  /\ log = << >>
  /\ lastCall = NoCall
  /\ runsDone = 0
  /\ execCount = << >>
  /\ failed = FALSE
  /\ cvDone = {}
  /\ produced = << >>
  /\ other = NoOther
  /\ applied = NoApp

\* Control goes back to the caller.
Return ==
  /\ pc = "done"
  /\ pc' = "idle"
  /\ lastCall' = NoCall
  /\ log' = << >>
  /\ UNCHANGED <<vars_exec, vars_scope, cur, runsDone, execCount, failed,
                 cvDone, produced>>
  /\ UNCHANGED <<other, applied>>

RunStep == RunBegin \/ StepInput \/ StepExec \/ StepReuse \/ StepOutput

\* Operator list, hooks and Run().
NextExec ==
  \/ \E b \in ExecBlocks : Prepare(RootScope, b)
  \/ \E h \in HookIds : RegisterInputHook(h)
  \/ \E h \in HookIds : RegisterOutputHook(h)
  \/ RunStep
  \/ Return

SpecExec == Init /\ [][NextExec]_vars

\* Variable creation and lookup in the caller's scope hierarchy.
NextVars ==
  \/ \E sc \in {MidScope, LeafScope} : PrepareScope(sc)
  \/ \E p \in BOOLEAN, sc \in {NullScope} \cup CallerScopes :
       CreateVariables(2, p, sc)
  \/ \E n \in {"w", "x", "Z"} : FindTensor(n)
  \/ \E n \in {"w", "x"} : CallerFill(n, [alloc |-> TRUE, size |-> 1])
  \/ Return

SpecVars == Init /\ [][NextVars]_vars

\* An executor on a scope that has a parent, a sibling and a child, and
\* CreateVariables on each scope of that family.
NextFamily ==
  \/ \E sc \in {MidScope, SiblingScope} : PrepareScope(sc)
  \/ \E p \in BOOLEAN, sc \in {MidScope, LeafScope, SiblingScope} :
       CreateVariables(2, p, sc)
  \/ \E n \in {"w", "x", "Z"} : FindTensor(n)
  \/ Return

SpecFamily == Init /\ [][NextFamily]_vars

\* CreateVariables statement by statement on every scope the caller has,
\* the malformed ones included. The thread that runs the call keeps
\* running, so a step of the call that stays possible is taken.
NextWalk ==
  \/ \E p \in BOOLEAN, sc \in {NullScope} \cup ExistingScopes :
       CreateVariablesBegin(2, p, sc)
  \/ CreateVariablesWalk
  \/ CreateVariablesLoop
  \/ Return

SpecWalk ==
  /\ Init /\ [][NextWalk]_vars
  /\ WF_vars(CreateVariablesWalk) /\ WF_vars(CreateVariablesLoop)

\* The caller has created the variables of block 1 in the root scope
\* before handing it to the executor.
InitReuse ==
  /\ scope_ = NullScope
  /\ ops_ = << >>
  /\ input_hookfuncs_ = << >>
  /\ output_hookfuncs_ = << >>
  /\ reuse_cache_ = << >>
  /\ cluster_buffer_ = << >>
  /\ interpreter_core_ = NoCore
  /\ scopes = ExistingScopes
  /\ vars_ = CreateVariablesIn(CreateVariablesIn(EmptyScopes, 1, TRUE, RootScope),
                               1, FALSE, RootScope)
  /\ pc = "idle"
  /\ cur = 0
  /\ log = << >>
  /\ lastCall = [NoCall EXCEPT !.again = FALSE]
  /\ runsDone = 0
  /\ execCount = << >>
  /\ failed = FALSE
  /\ cvDone = {<<1, TRUE, RootScope>>, <<1, FALSE, RootScope>>}
  /\ produced = << >>
  /\ other = NoOther
  /\ applied = NoApp

\* The reuse plan, made once between Prepare and the first Run() over
\* targets that exist, the target "X" left empty or filled by the caller
\* before that, and Run() over the operators of block 1, none of which
\* fails.
NextReuse ==
  \/ Prepare(RootScope, 1)
  \/ \E table \in {t \in ReuseTables : "Z" \notin Targets(t)} :
       \E cluster_names \in Orders(Targets(table)) :
         /\ ops_ # << >> /\ cluster_buffer_ = << >> /\ runsDone = 0
         /\ MakeReusePlan(table, cluster_names)
  \/ cluster_buffer_ = << >>
       /\ CallerFill("X", [alloc |-> TRUE, size |-> MaxSize])
  \/ RunStep /\ ~failed'
  \/ Return

SpecReuse == InitReuse /\ [][NextReuse]_vars

\* The two-operator program of block 4 with the reuse table {t1: X} and at
\* most one hook of each kind; the caller's root scope holds the variables
\* of block 4 (no "X") or those of block 1 (with "X").
InitScenario ==
  /\ scope_ = NullScope
  /\ ops_ = << >>
  /\ input_hookfuncs_ = << >>
  /\ output_hookfuncs_ = << >>
  /\ reuse_cache_ = << >>
  /\ cluster_buffer_ = << >>
  /\ interpreter_core_ = NoCore
  /\ scopes = ExistingScopes
  /\ \E b \in {1, 4} :
       /\ vars_ = CreateVariablesIn(EmptyScopes, b, FALSE, RootScope)
       /\ cvDone = {<<b, FALSE, RootScope>>}
  /\ pc = "idle"
  /\ cur = 0
  /\ log = << >>
  /\ lastCall = [NoCall EXCEPT !.again = FALSE]
  /\ runsDone = 0
  /\ execCount = << >>
  /\ failed = FALSE
  /\ produced = << >>
  /\ other = NoOther
  /\ applied = NoApp

NextScenario ==
  \/ ops_ = << >> /\ Prepare(RootScope, 4)
  \/ input_hookfuncs_ = << >> /\ RegisterInputHook(1)
  \/ output_hookfuncs_ = << >> /\ RegisterOutputHook(1)
  \/ \E s \in Sizes :
       cluster_buffer_ = << >> /\ CallerFill("X", [alloc |-> TRUE, size |-> s])
  \/ /\ ops_ # << >> /\ cluster_buffer_ = << >> /\ runsDone = 0
     /\ MakeReusePlan([n \in {"t1"} |-> "X"], <<"X">>)
  \/ RunStep
  \/ Return

SpecScenario == InitScenario /\ [][NextScenario]_vars

\* Planning once, before or after Prepare, over tables that name variables
\* and targets the scope lacks or holds as another kind; Run() and
\* FindTensor on an executor that has not been prepared.
NextPlan ==
  \/ \E b \in {4, 5} : Prepare(RootScope, b)
  \/ \E sc \in {NullScope, MidScope} : Prepare(sc, 4)
  \/ \E sc \in {NullScope, LeafScope} : PrepareScope(sc)
  \/ ops_ = << >> /\ RunBegin
  \/ scope_ = NullScope /\ FindTensor("X")
  \/ \E table \in PlanTables :
       \E cluster_names \in Orders(Targets(table)) :
         cluster_buffer_ = << >> /\ MakeReusePlan(table, cluster_names)
  \/ Return

SpecPlan == InitReuse /\ [][NextPlan]_vars

\* An operator that writes in place: it gives an output tensor a new
\* allocation only when the one the tensor has is too small.
InPlace ==
  pc = "exec" =>
    \A t \in OutTensors(vars_, scope_, ops_[cur]) :
      memory_size(vars_, t) >= Tensor(vars_', t).dims =>
        Tensor(vars_', t).buf = Tensor(vars_, t).buf

\* After the first Run() every operator produces the sizes it produced in
\* the Run() before.
SameSizes ==
  (pc = "exec" /\ runsDone >= 1) =>
    \A t \in OutTensors(vars_, scope_, ops_[cur]) :
      Tensor(vars_', t).dims = Tensor(vars_, t).dims

\* Repeated Run() calls of in-place operators that reach a steady state
\* after the first one, over a plan whose targets X and Y no operator
\* writes; the caller may have filled X before planning.
NextSteady ==
  \/ Prepare(RootScope, 1)
  \/ \E table \in {t \in ReuseTables : Targets(t) \subseteq {"X", "Y"}} :
       \E cluster_names \in Orders(Targets(table)) :
         /\ ops_ # << >> /\ cluster_buffer_ = << >> /\ runsDone = 0
         /\ MakeReusePlan(table, cluster_names)
  \/ \E sz \in Sizes :
       cluster_buffer_ = << >> /\ CallerFill("X", [alloc |-> TRUE, size |-> sz])
  \/ RunStep /\ ~failed' /\ InPlace /\ SameSizes
  \/ Return

SpecSteady == InitReuse /\ [][NextSteady]_vars

\* The executor of the scenario, with an interpreter attached or not, used
\* through Run() and through RunInterpreterCore().
NextCore ==
  \/ ops_ = << >> /\ Prepare(RootScope, 4)
  \/ input_hookfuncs_ = << >> /\ RegisterInputHook(1)
  \/ output_hookfuncs_ = << >> /\ RegisterOutputHook(2)
  \/ /\ ops_ # << >> /\ cluster_buffer_ = << >> /\ runsDone = 0
     /\ MakeReusePlan([n \in {"t1", "t2"} |-> "X"], <<"X">>)
  \/ PrepareInterpreterCore(RootScope)
  \/ \E feed_names \in FeedNames, need_fetch, switch_stream \in BOOLEAN :
       RunInterpreterCore(feed_names, need_fetch, switch_stream)
  \/ runsDone = 0 /\ RunStep /\ ~failed'
  \/ Return

SpecCore == InitReuse /\ [][NextCore]_vars

\* One Run() over the operators of block 1, the while operator among
\* them, with hooks of both kinds registered and the plan that puts t1 and
\* t2 in the cluster of X and t3 in the cluster of Y.
NextOrder ==
  \/ ops_ = << >> /\ Prepare(RootScope, 1)
  \/ input_hookfuncs_ = << >> /\ RegisterInputHook(1)
  \/ \E h \in HookIds : output_hookfuncs_ \in {<< >>, <<1>>} /\ RegisterOutputHook(h)
  \/ \E cluster_names \in Orders({"X", "Y"}) :
       /\ ops_ # << >> /\ cluster_buffer_ = << >> /\ runsDone = 0
       /\ MakeReusePlan([n \in {"t1", "t2", "t3"} |-> IF n = "t3" THEN "Y" ELSE "X"],
                        cluster_names)
  \/ \E sz \in {1, MaxSize} :
       cluster_buffer_ = << >> /\ CallerFill("X", [alloc |-> TRUE, size |-> sz])
  \/ runsDone = 0 /\ RunStep /\ ~failed'
  \/ Return

SpecOrder == InitReuse /\ [][NextOrder]_vars

\* Planning more than once, with the same table or another one and in any
\* cluster order, before and between Run() calls over the operators of
\* block 1.
NextReplan ==
  \/ ops_ = << >> /\ Prepare(RootScope, 1)
  \/ \E table \in {t \in ReuseTables : Targets(t) \subseteq {"X", "Y"}} :
       \E cluster_names \in Orders(Targets(table)) :
         ops_ # << >> /\ MakeReusePlan(table, cluster_names)
  \/ RunStep /\ ~failed'
  \/ StepReuseUndefined
  \/ Return

SpecReplan == InitReuse /\ [][NextReplan]_vars

\* Two executor instances, each used by a thread of its own: the variables
\* of the executor hold the instance whose thread is running and
\* other.parked holds the other one.  Instance 1 works on the caller's root
\* scope and instance 2 on a second root scope; both have registered hooks.
OtherRoot == 5

\* The instance whose thread is running, as a record.
Me ==
  [scope_ |-> scope_, ops_ |-> ops_, input_hookfuncs_ |-> input_hookfuncs_,
   output_hookfuncs_ |-> output_hookfuncs_, reuse_cache_ |-> reuse_cache_,
   cluster_buffer_ |-> cluster_buffer_, interpreter_core_ |-> interpreter_core_,
   pc |-> pc, cur |-> cur, log |-> log, lastCall |-> lastCall,
   runsDone |-> runsDone, execCount |-> execCount, failed |-> failed,
   produced |-> produced]

\* A constructed executor with the given hook lists registered.
Constructed(in_hooks, out_hooks) ==
  [scope_ |-> NullScope, ops_ |-> << >>, input_hookfuncs_ |-> in_hooks,
   output_hookfuncs_ |-> out_hooks, reuse_cache_ |-> << >>,
   cluster_buffer_ |-> << >>, interpreter_core_ |-> NoCore,
   pc |-> "idle", cur |-> 0, log |-> << >>,
   lastCall |-> [NoCall EXCEPT !.again = FALSE],
   runsDone |-> 0, execCount |-> << >>, failed |-> FALSE, produced |-> << >>]

\* The scope of the running instance.
OwnScope == IF other.who = 1 THEN RootScope ELSE OtherRoot

\* What the operators of the two programs produce: instance -> operator
\* position -> one choice per output.
ScriptsTwo ==
  [1..2 -> [1..2 -> [1..1 -> {c \in ProduceChoices : c.alloc}]]]

\* The variables of block 1 in both root scopes.
VarsTwo ==
  CreateVariablesIn(CreateVariablesIn(EmptyScopes, 1, FALSE, RootScope),
                    1, FALSE, OtherRoot)

InitTwo ==
  /\ scope_ = NullScope
  /\ ops_ = << >>
  /\ input_hookfuncs_ = <<1>>
  /\ output_hookfuncs_ = <<2>>
  /\ reuse_cache_ = << >>
  /\ cluster_buffer_ = << >>
  /\ interpreter_core_ = NoCore
  /\ scopes = ExistingScopes \cup {OtherRoot}
  /\ vars_ = VarsTwo
  /\ pc = "idle"
  /\ cur = 0
  /\ log = << >>
  /\ lastCall = [NoCall EXCEPT !.again = FALSE]
  /\ runsDone = 0
  /\ execCount = << >>
  /\ failed = FALSE
  /\ cvDone = {<<1, FALSE, RootScope>>, <<1, FALSE, OtherRoot>>}
  /\ produced = << >>
  /\ \E sc \in ScriptsTwo :
       other = [who |-> 1, mixed |-> FALSE,
                parked |-> Constructed(<<2, 1>>, << >>), script |-> sc]
  /\ applied = NoApp

\* The scheduler takes the processor from the running thread and gives it
\* to the other one; mixed records that both were inside Run() then.
Switch ==
  /\ scope_' = other.parked.scope_
  /\ ops_' = other.parked.ops_
  /\ input_hookfuncs_' = other.parked.input_hookfuncs_
  /\ output_hookfuncs_' = other.parked.output_hookfuncs_
  /\ reuse_cache_' = other.parked.reuse_cache_
  /\ cluster_buffer_' = other.parked.cluster_buffer_
  /\ interpreter_core_' = other.parked.interpreter_core_
  /\ pc' = other.parked.pc
  /\ cur' = other.parked.cur
  /\ log' = other.parked.log
  /\ lastCall' = other.parked.lastCall
  /\ runsDone' = other.parked.runsDone
  /\ execCount' = other.parked.execCount
  /\ failed' = other.parked.failed
  /\ produced' = other.parked.produced
  /\ other' = [other EXCEPT
                 !.who = 3 - @,
                 !.parked = Me,
                 !.mixed = @ \/ (/\ pc \in {"in", "exec", "reuse", "out"}
                                 /\ other.parked.pc \in {"in", "exec", "reuse", "out"})]
  /\ UNCHANGED <<scopes, vars_, cvDone, applied>>

\* Each instance is prepared on its own scope with the program of block 4,
\* may plan {t1: X, t2: X} and calls Run() once; its operators produce what
\* the script says; the threads are switched at any step.
NextTwo ==
  \/ ops_ = << >> /\ Prepare(OwnScope, 4)
  \/ /\ ops_ # << >> /\ cluster_buffer_ = << >> /\ runsDone = 0
     /\ MakeReusePlan([n \in {"t1", "t2"} |-> "X"], <<"X">>)
  \/ /\ runsDone = 0
     /\ RunStep
     /\ ~failed'
     /\ pc = "exec" =>
          vars_' = OpRun(vars_, scope_, ops_[cur], other.script[other.who][cur])
  \/ Switch
  \/ Return

SpecTwo == InitTwo /\ [][NextTwo]_vars

----------------------------------------------------------------------------
(* paddle::span, as exercised by test/cpp/utils/span_test.cc *)

dynamic_extent == -1

\* The arrays of the tests: the address of element 0; each has MaxLen
\* elements, addresses count elements.
Arrays == {100, 200}

\* span(pointer ptr, size_type count) of span<T, Extent>: a span of fixed
\* extent takes its size from its type.
span(ptr, count, Extent) ==
  [ptr |-> ptr, extent |-> Extent,
   count |-> IF Extent = dynamic_extent THEN count ELSE Extent]

data(s) == s.ptr
size(s) == s.count
begin(s) == data(s)
end(s) == data(s) + size(s)

first(s, n) == span(data(s), n, dynamic_extent)

\* last taking the elements from the front.
last_FromFront(s, n) == span(data(s), n, dynamic_extent)

last(s, n) == span(data(s) + (size(s) - n), n, dynamic_extent)

subspan(s, o, c) == span(data(s) + o, c, dynamic_extent)

\* first<N>, last<N>, subspan<O, C>: the result is a span<T, N> (span<T, C>)
firstN(s, N) == span(data(s), N, N)
lastN(s, N) == span(data(s) + (size(s) - N), N, N)
subspanN(s, O, C) == span(data(s) + O, C, C)

\* One evaluation: fn applied to the span s with args gave value.
App(fn, s, args, value) == [fn |-> fn, s |-> s, args |-> args, value |-> value]

\* The executor is not involved and no scope exists.
Idle ==
  /\ scope_ = NullScope /\ ops_ = << >>
  /\ input_hookfuncs_ = << >> /\ output_hookfuncs_ = << >>
  /\ reuse_cache_ = << >> /\ cluster_buffer_ = << >>
  /\ interpreter_core_ = NoCore
  /\ scopes = {} /\ vars_ = << >>
  /\ pc = "idle" /\ cur = 0 /\ log = << >> /\ lastCall = NoCall
  /\ runsDone = 0 /\ execCount = << >> /\ failed = FALSE
  /\ cvDone = {} /\ produced = << >>
  /\ other = NoOther

\* span<int> s(arr, k) or span<int, k> s(arr, k) over the first k elements
\* of an array.
InitSpan ==
  /\ Idle
  /\ \E arr \in Arrays, k \in 0..MaxLen, E \in {dynamic_extent, 0} :
       applied = App("span", span(arr, 0, dynamic_extent), <<arr, k>>,
                     span(arr, k, IF E = dynamic_extent THEN E ELSE k))

\* A view of the span last made, all arguments within its size.
First ==
  /\ \E n \in 0..size(applied.value) :
       applied' = App("first", applied.value, <<n>>, first(applied.value, n))
  /\ UNCHANGED <<vars_exec, vars_scope, vars_run, vars_obs, other>>

Last ==
  /\ \E n \in 0..size(applied.value) :
       applied' = App("last", applied.value, <<n>>, last(applied.value, n))
  /\ UNCHANGED <<vars_exec, vars_scope, vars_run, vars_obs, other>>

Subspan ==
  /\ \E o \in 0..size(applied.value) : \E c \in 0..(size(applied.value) - o) :
       applied' = App("subspan", applied.value, <<o, c>>, subspan(applied.value, o, c))
  /\ UNCHANGED <<vars_exec, vars_scope, vars_run, vars_obs, other>>

FirstN ==
  /\ \E n \in 0..size(applied.value) :
       applied' = App("first<N>", applied.value, <<n>>, firstN(applied.value, n))
  /\ UNCHANGED <<vars_exec, vars_scope, vars_run, vars_obs, other>>

LastN ==
  /\ \E n \in 0..size(applied.value) :
       applied' = App("last<N>", applied.value, <<n>>, lastN(applied.value, n))
  /\ UNCHANGED <<vars_exec, vars_scope, vars_run, vars_obs, other>>

SubspanN ==
  /\ \E o \in 0..size(applied.value) : \E c \in 0..(size(applied.value) - o) :
       applied' = App("subspan<O, C>", applied.value, <<o, c>>,
                      subspanN(applied.value, o, c))
  /\ UNCHANGED <<vars_exec, vars_scope, vars_run, vars_obs, other>>

NextSpan ==
  \/ First
  \/ Last
  \/ Subspan
  \/ FirstN
  \/ LastN
  \/ SubspanN

SpecSpan == InitSpan /\ [][NextSpan]_vars

----------------------------------------------------------------------------
(* ParseOpPatches, pir/serialize_deserialize/src/patch_util.cc lines 201-268 *)

\* YAML nodes that are not scalars: a key the map lacks, and a sequence.
Undefined == "<undefined>"
SequenceNode == "<sequence>"

IsDefined(v) == v # Undefined
IsScalar(v) == v \notin {Undefined, SequenceNode}

\* The outcome of a conversion that throws, and of the function it ends.
BadConversion == "BadConversion"

\* YAML::Node::as<std::string>() and as<int>(): the value, or an exception
AsString(v) == [threw |-> ~IsScalar(v), v |-> v]
AsInt(v) == [threw |-> v # "0", v |-> 0]

AttrActions == {"add_attr", "modify_attr", "delete_attr"}
OutputAttrActions == {"add_output_attr", "modify_output_attr", "delete_output_attr"}
RenameActions == {"modify_attr_name", "modify_output_attr_name"}
InputActions == {"add_input", "modify_input", "delete_input"}
OutputActions == {"add_output", "modify_output", "delete_output"}
ActionNames ==
  AttrActions \cup OutputAttrActions \cup RenameActions \cup InputActions
    \cup OutputActions \cup {"modify_output_type"}

\* One element of `actions`: a map with the keys action, object, type and
\* default, the last two of which the map may lack or hold as a sequence.
ActionNodes ==
  [action : ActionNames, object : {"0", Undefined},
   type : {"pir::StrAttribute"}, default : {"b", SequenceNode, Undefined}]

OpNames == {"builtin.parameter", "pd_op.data"}

\* The dialect prefix of the name replaced by the dialect's id.
GetCompressOpName(op_name) ==
  IF op_name = "builtin.parameter" THEN "0.parameter" ELSE "1.data"

\* lines 39-121 for pir::StrAttribute
GetAttrJson(action) ==
  [threw |-> AsString(action.default).threw,
   v |-> [ID |-> "0.a_str", DATA |-> AsString(action.default).v]]

\* lines 29-37
BuildAttrJsonPatch(action) ==
  IF ~IsDefined(action.type) \/ ~IsDefined(action.default)
    THEN [threw |-> FALSE, v |-> [null |-> TRUE]]
    ELSE GetAttrJson(action)

\* lines 128-199, as far as the type name and the data go
BuildTypeJsonPatch(action) ==
  [threw |-> AsString(action.type).threw \/ ~IsDefined(action.default),
   v |-> [ID |-> AsString(action.type).v, DATA |-> action.default]]

\* A string literal used as a condition is a pointer that is not null.
Truthy(literal) == literal = literal

\* The condition of line 239 with both names compared.
RenameCondition_BothCompared(action_name) ==
  action_name = "modify_attr_name" \/ action_name = "modify_output_attr_name"

\* line 239-240
RenameCondition(action_name) ==
  action_name = "modify_attr_name" \/ Truthy("modify_output_attr_name")

NoPatch == [ATTRS |-> << >>, OPRESULTS_ATTRS |-> << >>, OPRESULTS |-> << >>]

\* j_patch["patch"][col].push_back(entry), the branch taken noted
Push(st, col, entry, branch) ==
  [st EXCEPT !.patch[col] = Append(@, entry), !.branches = Append(@, branch)]

Throw(st, branch) ==
  [st EXCEPT !.status = BadConversion, !.branches = Append(@, branch)]

\* lines 219-263 for one action; st = [patch, branches, status]
ParseAction(st, action) ==
  LET action_name == action.action
  IN  IF action_name \in AttrActions
        THEN IF AsString(action.object).threw
                  \/ BuildAttrJsonPatch(action).threw
               THEN Throw(st, "attr")
               ELSE Push(st, "ATTRS",
                         [NAME |-> AsString(action.object).v,
                          ATTR_TYPE |-> BuildAttrJsonPatch(action).v], "attr")
      ELSE IF action_name \in OutputAttrActions
        THEN IF AsString(action.object).threw
                  \/ BuildAttrJsonPatch(action).threw
               THEN Throw(st, "output_attr")
               ELSE Push(st, "OPRESULTS_ATTRS",
                         [NAME |-> AsString(action.object).v,
                          ATTR_TYPE |-> BuildAttrJsonPatch(action).v], "output_attr")
      ELSE IF RenameCondition(action_name)
        THEN IF AsString(action.object).threw
                  \/ AsString(action.default).threw
               THEN Throw(st, "rename")
               ELSE Push(st,
                         IF action_name = "modify_attr_name"
                           THEN "ATTRS" ELSE "OPRESULTS_ATTRS",
                         [NAME |-> AsString(action.object).v,
                          NEW_NAME |-> AsString(action.default).v], "rename")
      ELSE IF action_name \in InputActions
        THEN [st EXCEPT !.branches = Append(@, "input")]
      ELSE IF action_name \in OutputActions
        THEN [st EXCEPT !.branches = Append(@, "output")]
      ELSE IF action_name = "modify_output_type"
        THEN IF AsInt(action.object).threw
                  \/ BuildTypeJsonPatch(action).threw
               THEN Throw(st, "output_type")
               ELSE Push(st, "OPRESULTS",
                         [VALUE_ID |-> AsInt(action.object).v,
                          TYPE_TYPE |-> BuildTypeJsonPatch(action).v], "output_type")
      ELSE [st EXCEPT !.branches = Append(@, "none")]

\* lines 218-264: the actions from the j-th on, until one throws
RECURSIVE ParseActions(_, _, _)
ParseActions(st, actions, j) ==
  IF j > Len(actions) \/ st.status = BadConversion THEN st
  ELSE ParseActions(ParseAction(st, actions[j]), actions, j + 1)

\* lines 203-265 for one element of root: the patch of the op, the branch
\* each of its actions took, and "ok" or the exception that left the
\* function.
ParseOpPatch(node) ==
  LET op_name == GetCompressOpName(node.op_name)
      st == ParseActions([patch |-> NoPatch, branches |-> << >>, status |-> "ok"],
                         node.actions, 1)
  IN  [op_name |-> IF op_name = "0.parameter" THEN "p" ELSE op_name,
       patch |-> st.patch, branches |-> st.branches, status |-> st.status]

\* The caller has loaded a patch file.
InitPatch ==
  /\ Idle
  /\ \E len \in 0..MaxActions : \E n \in OpNames : \E acts \in [1..len -> ActionNodes] :
       applied = App("YAML::Load", << >>, << >>,
                     <<[op_name |-> n, actions |-> acts]>>)

\* ParseOpPatches(root)
ParseOpPatches ==
  /\ applied.fn = "YAML::Load"
  /\ applied' = App("ParseOpPatches", applied.value, << >>,
                    [i \in 1..Len(applied.value) |-> ParseOpPatch(applied.value[i])])
  /\ UNCHANGED <<vars_exec, vars_scope, vars_run, vars_obs, other>>

NextPatch == ParseOpPatches

SpecPatch == InitPatch /\ [][NextPatch]_vars

----------------------------------------------------------------------------
(* NAdamGPUKernel and its launch by NAdamKernel, the GPU kernel of nadam *)

\* int and unsigned int, scaled from 32 bits to IntBits bits.
IntBits == 3
Modulus == 2 ^ IntBits
IntMax  == 2 ^ (IntBits - 1) - 1
Ints    == (0 - IntMax - 1)..IntMax

\* Conversions between int and unsigned int: the value modulo 2^IntBits.
ToUnsigned(i) == (i + Modulus) % Modulus
ToInt(u) == IF u > IntMax THEN u - Modulus ELSE u

\* line 152: int block = 512, scaled with the integer width.
block == 2

Threads(g, b) == (0..(g - 1)) \X (0..(b - 1))

\* line 51, the increment: index += gridDim.x * blockDim.x, the product and
\* the sum computed in unsigned int.
NextIndex(index, g, b) ==
  ToInt((ToUnsigned(index) + ((g * b) % Modulus)) % Modulus)

\* The kernel launched with g blocks of b threads: every thread has
\* computed idx (line 49, in unsigned int) and starts its loop at it.
Launched(g, b, num) ==
  [fn |-> "NAdamGPUKernel", num |-> num, gridDim |-> g, blockDim |-> b,
   index |-> [th \in Threads(g, b) |-> ToInt((th[1] * b + th[2]) % Modulus)],
   exited |-> {},
   count |-> [i \in Ints |-> 0]]

\* A launch of the kernel with any positive dimensions.
NAdamGPUKernel(g, b, num) ==
  /\ pc = "idle"
  /\ g * b <= MaxThreads
  /\ pc' = "kernel"
  /\ applied' = Launched(g, b, num)
  /\ UNCHANGED <<vars_exec, vars_scope, cur, log, lastCall, runsDone,
                 execCount, failed, cvDone, produced, other>>

\* lines 151-157: block blocks are launched, of grid threads each.
NAdamKernel(numel) ==
  /\ pc = "idle"
  /\ LET grid == (numel + block - 1) \div block
     IN  applied' = Launched(block, grid, numel)
  /\ pc' = "kernel"
  /\ UNCHANGED <<vars_exec, vars_scope, cur, log, lastCall, runsDone,
                 execCount, failed, cvDone, produced, other>>

\* One evaluation of the loop condition by one thread, with the body and
\* the increment when it holds (lines 51-102). count[i] is how often
\* element i has been loaded and stored, 2 standing for twice or more.
ThreadIteration(th) ==
  /\ pc = "kernel"
  /\ th \in DOMAIN applied.index /\ th \notin applied.exited
  /\ LET index == applied.index[th]
     IN  IF index < applied.num
           THEN applied' =
                  [applied EXCEPT
                     !.count[index] = IF @ = 2 THEN 2 ELSE @ + 1,
                     !.index[th] = NextIndex(index, applied.gridDim,
                                             applied.blockDim)]
           ELSE applied' = [applied EXCEPT !.exited = @ \cup {th}]
  /\ UNCHANGED <<vars_exec, vars_scope, pc, cur, log, lastCall, runsDone,
                 execCount, failed, cvDone, produced, other>>

\* The body entered with an index outside the arrays: the access is
\* undefined; besides going on as ThreadIteration does, it can fault, which
\* ends the kernel.
ThreadFault(th) ==
  /\ pc = "kernel"
  /\ th \in DOMAIN applied.index /\ th \notin applied.exited
  /\ applied.index[th] < applied.num
  /\ applied.index[th] \notin 0..(applied.num - 1)
  /\ pc' = "done"
  /\ lastCall' = Call("NAdamKernel", 0, 0, FALSE, "IllegalAddress")
  /\ UNCHANGED <<vars_exec, vars_scope, cur, log, runsDone, execCount,
                 failed, cvDone, produced, other, applied>>

\* Every thread has left its loop.
KernelEnd ==
  /\ pc = "kernel"
  /\ applied.exited = DOMAIN applied.index
  /\ pc' = "done"
  /\ lastCall' = Call("NAdamKernel", 0, 0, FALSE, "ok")
  /\ UNCHANGED <<vars_exec, vars_scope, cur, log, runsDone, execCount,
                 failed, cvDone, produced, other, applied>>

NextNAdam ==
  \/ \E g \in 1..MaxGridDim, b \in 1..MaxBlockDim, num \in 0..IntMax :
       NAdamGPUKernel(g, b, num)
  \/ \E numel \in 0..IntMax : NAdamKernel(numel)
  \/ \E th \in Threads(MaxThreads, MaxThreads) : ThreadIteration(th)
  \/ \E th \in Threads(MaxThreads, MaxThreads) : ThreadFault(th)
  \/ KernelEnd
  \/ Return

\* No kernel has been launched; the executor is not involved.
InitNAdam == Idle /\ applied = NoApp

SpecNAdam == InitNAdam /\ [][NextNAdam]_vars

----------------------------------------------------------------------------
(* Properties of the operator list and of Run() *)

RunReturned == pc = "done" /\ lastCall.api = "Run" /\ lastCall.result = "ok"

OfKind(kinds) == SelectSeq(log, LAMBDA e : e.kind \in kinds)

\* C1: a Run() that returns without an operator failure has executed the
\* operators at positions 1..n of the list, each once, in list order, the
\* last one before it returns; while no operator has failed, after k Run()
\* calls every operator has been executed exactly k times.
RunExecutesEachOpOnceInOrder ==
  /\ RunReturned =>
       OfKind({"run"}) = [i \in 1..Len(ops_) |-> Ev("run", 0, i)]
  /\ (~failed /\ pc \in {"idle", "done"}) =>
       \A i \in 1..Len(ops_) : execCount[i] = runsDone

\* Two successive Run() calls over a three-operator list have returned.
WitnessRunTwice ==
  RunReturned /\ Len(ops_) = 3 /\ runsDone = 2 /\ ~failed

\* The hook and operator calls of operator i, in the order claimed.
CallsOf(i) ==
  [k \in 1..Len(input_hookfuncs_) |-> Ev("in", input_hookfuncs_[k], i)]
    \o <<Ev("run", 0, i)>>
    \o [k \in 1..Len(output_hookfuncs_) |-> Ev("out", output_hookfuncs_[k], i)]

ExpectedCalls == Flatten([i \in 1..Len(ops_) |-> CallsOf(i)])

\* C2: during every Run() the hook and operator calls observed so far are
\* h1(A)..hm(A), A.Run(), g1(A)..gk(A) for the operators A in list order
\* (hooks in registration order, nothing of a later operator before the
\* last output hook of A), and a Run() that returns has made all of them.
HooksRunInRegistrationOrder ==
  /\ IsPrefix(OfKind({"in", "run", "out"}), ExpectedCalls)
  /\ RunReturned => OfKind({"in", "run", "out"}) = ExpectedCalls

\* A Run() over two operators returned with input hooks [1, 2] and an
\* output hook registered.
WitnessHooksCalled ==
  /\ RunReturned
  /\ Len(ops_) >= 2
  /\ input_hookfuncs_ = <<1, 2>>
  /\ Len(output_hookfuncs_) >= 1

\* The descriptors of the block that are not feed or fetch.
Kept(b) == {k \in 1..Len(Desc[b].ops) : Desc[b].ops[k].type \notin {"feed", "fetch"}}

\* C3: Prepare on a freshly constructed executor leaves as operator list
\* the descriptors of the block that are not feed/fetch: one operator per
\* such descriptor, in declaration order, none twice.
PrepareKeepsNonIoOpsInOrder ==
  [][(pc = "idle" /\ lastCall'.api = "Prepare" /\ scope_ = NullScope
        /\ ops_ = << >>)
       => /\ Len(ops_') = Cardinality(Kept(lastCall'.block))
          /\ \A j \in 1..Len(ops_') :
               /\ ops_'[j].block = lastCall'.block
               /\ ops_'[j].index \in Kept(lastCall'.block)
               /\ ops_'[j].type = Desc[lastCall'.block].ops[ops_'[j].index].type
               /\ ops_'[j].outs = Desc[lastCall'.block].ops[ops_'[j].index].outs
          /\ \A i, j \in 1..Len(ops_') :
               i < j => ops_'[i].index < ops_'[j].index]_vars

\* The first Prepare was given block 2, whose feed and fetch descriptors
\* stand between two other operators.
WitnessPrepareFiltered ==
  /\ pc = "done" /\ lastCall.api = "Prepare" /\ lastCall.block = 2
  /\ Len(ops_) = 2
  /\ ops_[1].index = 1 /\ ops_[2].index = 4

----------------------------------------------------------------------------
(* Properties of CreateVariables *)

\* A CreateVariables call is made in this step.
CreateVariablesCalled == pc = "idle" /\ lastCall'.api = "CreateVariables"

CreateVariablesDone ==
  pc = "done" /\ lastCall.api = "CreateVariables" /\ lastCall.result = "ok"

\* The same call (block, persistable, scope) has completed before.
CalledBefore == lastCall'.again

\* The names a scope holds differently after the step.
Touched(s) == {n \in Names : vars_'[s][n] # vars_[s][n]}

\* The declarations of the block a call with the flag p is about.
Declared(b, p) ==
  {Desc[b].vars[k].name : k \in {j \in 1..Len(Desc[b].vars) :
      Desc[b].vars[j].persistable = p /\ Desc[b].vars[j].name # kEmptyVarName}}

\* C4: a second CreateVariables(desc, block, persistent=true, scope) on the
\* same scope creates no variable and re-initializes none: every variable of
\* every scope has the identity and contents it had before the call.
PersistentCreateIsIdempotent ==
  [][(CreateVariablesCalled /\ lastCall'.result = "ok" /\ lastCall'.persistable
        /\ CalledBefore)
       => vars_' = vars_]_vars

\* The second persistent call on the leaf scope returned while the root's
\* variable "w" holds data.
WitnessPersistentTwice ==
  /\ CreateVariablesDone /\ lastCall.persistable /\ lastCall.scope = LeafScope
  /\ lastCall.again
  /\ vars_[RootScope]["w"].msize > 0

\* C5: a second CreateVariables(..., persistent=false, scope) gives every
\* non-persistent variable of the block a storage object different from the
\* one it had, with no data (no allocation, size 0).
NonPersistentCreateIsFresh ==
  [][(CreateVariablesCalled /\ lastCall'.result = "ok" /\ ~lastCall'.persistable
        /\ CalledBefore)
       => \A n \in Declared(lastCall'.block, FALSE) :
            /\ vars_'[lastCall'.scope][n].kind # "none"
            /\ vars_'[lastCall'.scope][n].obj # vars_[lastCall'.scope][n].obj
            /\ vars_'[lastCall'.scope][n].buf = Null
            /\ vars_'[lastCall'.scope][n].msize = 0]_vars

\* The second non-persistent call on the middle scope returned; "x" there is
\* the second storage object and is empty.
WitnessNonPersistentTwice ==
  /\ CreateVariablesDone /\ ~lastCall.persistable /\ lastCall.scope = MidScope
  /\ lastCall.again
  /\ vars_[MidScope]["x"].obj = <<MidScope, "x", 2>>
  /\ vars_[MidScope]["x"].msize = 0

\* C6 as stated: with persistent=true the variables go to the root ancestor
\* and the supplied scope and the intermediate ancestors gain none; with
\* persistent=false they go to the supplied scope and no other scope.
PlacementAsStated ==
  [][(CreateVariablesCalled /\ lastCall'.result = "ok")
       => IF lastCall'.persistable
            THEN /\ \A s \in ScopeIds \ {RootOf(lastCall'.scope)} : Touched(s) = {}
                 /\ Touched(lastCall'.scope) = {}
            ELSE \A s \in ScopeIds \ {lastCall'.scope} : Touched(s) = {}]_vars

\* C6 (amended): with persistent=true every variable created is one of the
\* block's persistent declarations and is added to the root ancestor of the
\* supplied scope, and no other scope changes (the supplied scope gains none
\* when it has a parent; when it has none it is the root and receives them);
\* with persistent=false every variable created is a non-persistent
\* declaration, is added to the supplied scope, and no other scope changes.
PlacementByPersistence ==
  [][(CreateVariablesCalled /\ lastCall'.result = "ok")
       => LET target == IF lastCall'.persistable THEN RootOf(lastCall'.scope)
                        ELSE lastCall'.scope
          IN  /\ \A s \in ScopeIds \ {target} : Touched(s) = {}
              /\ Touched(target) \subseteq
                   Declared(lastCall'.block, lastCall'.persistable)
              /\ \A n \in Declared(lastCall'.block, lastCall'.persistable) :
                   vars_'[target][n].kind # "none"]_vars

\* A persistent call on the leaf scope put "w" in the root and nowhere else.
WitnessPlacement ==
  /\ CreateVariablesDone /\ lastCall.persistable /\ lastCall.scope = LeafScope
  /\ vars_[RootScope]["w"].kind = "dense"
  /\ vars_[MidScope]["w"].kind = "none"
  /\ vars_[LeafScope]["w"].kind = "none"

\* C7: CreateVariables on a null scope, or on a scope that is its own
\* parent, ends in InvalidArgument and has changed no variable of any scope.
CreateVariablesRejectsBadScope ==
  [][(CreateVariablesCalled
        /\ (lastCall'.scope = NullScope
              \/ parent(lastCall'.scope) = lastCall'.scope))
       => /\ lastCall'.result = "InvalidArgument"
          /\ vars_' = vars_
          /\ scopes' = scopes]_vars

\* The call on the self-parented scope was rejected after an ordinary call
\* had created variables.
WitnessBadScopeRejected ==
  /\ pc = "done" /\ lastCall.api = "CreateVariables"
  /\ lastCall.scope = SelfScope /\ lastCall.result = "InvalidArgument"
  /\ <<2, FALSE, RootScope>> \in cvDone

----------------------------------------------------------------------------
(* Cluster bookkeeping of Run(), lines 124-148 *)

\* The slots of cluster_buffer_ that hold a tensor.
SetSlots == {i \in DOMAIN cluster_buffer_ : cluster_buffer_[i] # Null}

CanonSize(i) == memory_size(vars_, cluster_buffer_[i])

\* The tensors the operator at position cur recorded under slot i.
CurEntries(i) ==
  IF cur \in DOMAIN reuse_cache_
    THEN {t \in DOMAIN reuse_cache_[cur] : reuse_cache_[cur][t] = i - 1}
    ELSE {}

InRun == pc \in {"in", "exec", "reuse", "out"}

Booked(o) == pc # "idle" /\ (cur > o \/ (cur = o /\ pc \in {"out", "done"}))

\* The pairs <<o, t>>: operator position o recorded tensor t.
Recorded ==
  {e \in (DOMAIN reuse_cache_)
          \X (UNION {DOMAIN reuse_cache_[o] : o \in DOMAIN reuse_cache_}) :
     e[2] \in DOMAIN reuse_cache_[e[1]]}

SameCluster(e, f) ==
  e[2] # f[2] /\ reuse_cache_[e[1]][e[2]] = reuse_cache_[f[1]][f[2]]

Larger(a, b) == IF a >= b THEN a ELSE b

\* C9 as stated: once the operators producing two tensors of one cluster
\* have both run in a Run(), the canonical buffer has the larger of the two
\* produced memory sizes and the two tensors have the same allocation.
SameClusterSharesLarger ==
  \A e, f \in Recorded :
    (SameCluster(e, f) /\ Booked(e[1]) /\ Booked(f[1])
       /\ e[2] \in DOMAIN produced /\ f[2] \in DOMAIN produced) =>
      /\ CanonSize(reuse_cache_[e[1]][e[2]] + 1) = Larger(produced[e[2]], produced[f[2]])
      /\ Tensor(vars_, e[2]).buf = Tensor(vars_, f[2]).buf

\* C9, amended: when the later of the two operators has left its tensor
\* strictly larger than the canonical buffer, its update makes that tensor
\* canonical, the canonical size is then the larger of the two produced
\* sizes and both tensors have the canonical allocation; otherwise its
\* update changes neither the canonical buffer nor either tensor.
LaterGrowthSharesLarger ==
  [][pc = "reuse" =>
       \A e, f \in Recorded :
         (SameCluster(e, f) /\ f[1] = cur /\ e[1] < cur /\ e[2] \in DOMAIN produced) =>
           LET i == reuse_cache_[cur][f[2]] + 1
           IN  IF memory_size(vars_, f[2]) > CanonSize(i)
                 THEN /\ cluster_buffer_'[i] = f[2]
                      /\ memory_size(vars_', f[2]) =
                           Larger(produced[e[2]], produced[f[2]])
                      /\ Tensor(vars_', e[2]).buf = Tensor(vars_', f[2]).buf
                      /\ Tensor(vars_', e[2]).buf # Null
                 ELSE /\ cluster_buffer_'[i] = cluster_buffer_[i]
                      /\ Tensor(vars_', e[2]) = Tensor(vars_, e[2])
                      /\ Tensor(vars_', f[2]) = Tensor(vars_, f[2])]_vars

\* Both operators ran in this Run(), the earlier one produced size 1 and
\* the later one size 2, and the later tensor became canonical.
WitnessLaterGrowth ==
  /\ pc = "out"
  /\ \E e, f \in Recorded :
       /\ SameCluster(e, f) /\ f[1] = cur /\ e[1] < cur
       /\ e[2] \in DOMAIN produced /\ produced[e[2]] = 1 /\ produced[f[2]] = 2
       /\ log[Len(log)].kind = "reuse"
       /\ log[Len(log)].arg[reuse_cache_[cur][f[2]] + 1]
       /\ cluster_buffer_[reuse_cache_[cur][f[2]] + 1] = f[2]
       /\ Tensor(vars_, e[2]).buf = Tensor(vars_, f[2]).buf

\* Slot i has a growth event in the update for the operator at cur.
Growth(i) ==
  i \in SetSlots /\ \E t \in CurEntries(i) : memory_size(vars_, t) > CanonSize(i)

\* C10: in the update for the just-executed operator, a cluster whose
\* canonical buffer the operator's tensor exceeds gets that tensor as
\* canonical buffer and every tensor recorded under the cluster id by any
\* operator gets its allocation; every other variable and every other
\* cluster's canonical buffer is left as it was.
GrowthRealiasesWholeCluster ==
  [][pc = "reuse" =>
       /\ \A i \in DOMAIN cluster_buffer_ :
            IF Growth(i)
              THEN /\ cluster_buffer_'[i] \in CurEntries(i)
                   /\ \A t \in ClusterTensors(reuse_cache_, i - 1) :
                        /\ Tensor(vars_', t).buf = Tensor(vars_', cluster_buffer_'[i]).buf
                        /\ Tensor(vars_', t).msize = Tensor(vars_', cluster_buffer_'[i]).msize
                        /\ Tensor(vars_', t).buf # Null
              ELSE cluster_buffer_'[i] = cluster_buffer_[i]
       /\ LET grown == UNION {ClusterTensors(reuse_cache_, i - 1) :
                                 i \in {j \in DOMAIN cluster_buffer_ : Growth(j)}}
          IN  \A s \in ScopeIds, n \in Names :
                vars_[s][n].obj \notin grown => vars_'[s][n] = vars_[s][n]]_vars

\* A growth event has re-aliased a tensor recorded by another operator,
\* while another cluster holds a tensor with an allocation of its own.
WitnessGrowthEvent ==
  /\ pc = "out"
  /\ log[Len(log)].kind = "reuse"
  /\ \E i, j \in SetSlots :
       /\ i # j
       /\ log[Len(log)].arg[i] /\ ~log[Len(log)].arg[j]
       /\ \E u \in ClusterTensors(reuse_cache_, i - 1) :
            /\ u \notin CurEntries(i)
            /\ Tensor(vars_, u).buf = Tensor(vars_, cluster_buffer_[i]).buf
       /\ \E w \in ClusterTensors(reuse_cache_, j - 1) :
            /\ Tensor(vars_, w).buf # Null
            /\ Tensor(vars_, w).buf # Tensor(vars_, cluster_buffer_[i]).buf

\* C11: the cluster update changes no tensor's logical shape, kind or
\* identity; of a re-aliased tensor only the allocation and its capacity
\* change.
AliasingKeepsShape ==
  [][pc = "reuse" =>
       \A s \in ScopeIds, n \in Names :
         /\ vars_'[s][n].dims = vars_[s][n].dims
         /\ vars_'[s][n].kind = vars_[s][n].kind
         /\ vars_'[s][n].obj = vars_[s][n].obj]_vars

\* A growth event has given a tensor the allocation of a canonical tensor
\* whose shape differs from its own.
WitnessAliasedKeepsOwnShape ==
  /\ pc = "out"
  /\ log[Len(log)].kind = "reuse"
  /\ \E i \in SetSlots :
       /\ log[Len(log)].arg[i]
       /\ \E u \in ClusterTensors(reuse_cache_, i - 1) :
            /\ u # cluster_buffer_[i]
            /\ Tensor(vars_, u).buf = Tensor(vars_, cluster_buffer_[i]).buf
            /\ Tensor(vars_, u).dims > 0
            /\ Tensor(vars_, u).dims # Tensor(vars_, cluster_buffer_[i]).dims

----------------------------------------------------------------------------
(* The scenario [Op1 -> y, Op2(y) -> z] with reuse table {y: buf0}:       *)
(* y = "t1", z = "t2", buf0 = "X"                                          *)

\* The first Run() after MakeReusePlan has returned.
PlannedRunReturned == RunReturned /\ runsDone = 1 /\ cluster_buffer_ # << >>

TensorOf(n) == vars_[RootScope][n].obj

\* C12 as stated: after MakeReusePlan and one Run(), y is recorded with
\* cluster id 0 and the canonical buffer of cluster 0 has the memory size
\* Op1 gave y.
ScenarioAsStated ==
  PlannedRunReturned =>
    /\ 1 \in DOMAIN reuse_cache_
    /\ TensorOf("t1") \in DOMAIN reuse_cache_[1]
    /\ reuse_cache_[1][TensorOf("t1")] = 0
    /\ CanonSize(1) = produced[TensorOf("t1")]

\* C12, amended: when buf0 is a dense tensor variable of the scope, y is
\* recorded with cluster id 0, and after one Run() the canonical buffer of
\* cluster 0 is y with the memory size Op1 gave it if that exceeds buf0's
\* memory size, and is buf0 with its own size otherwise; when the scope has
\* no variable buf0 nothing is recorded and the slot of cluster 0 is unset.
ScenarioByTargetSize ==
  PlannedRunReturned =>
    IF FindVar(vars_, RootScope, "X") # NullScope
      THEN /\ DOMAIN reuse_cache_ = {1}
           /\ DOMAIN reuse_cache_[1] = {TensorOf("t1")}
           /\ reuse_cache_[1][TensorOf("t1")] = 0
           /\ IF produced[TensorOf("t1")] > memory_size(vars_, TensorOf("X"))
                THEN /\ cluster_buffer_ = <<TensorOf("t1")>>
                     /\ CanonSize(1) = produced[TensorOf("t1")]
                ELSE /\ cluster_buffer_ = <<TensorOf("X")>>
                     /\ CanonSize(1) = memory_size(vars_, TensorOf("X"))
      ELSE reuse_cache_ = << >> /\ cluster_buffer_ = <<Null>>

\* Op1 gave y size 2 over an empty buf0 and y became the canonical buffer.
WitnessScenario ==
  /\ PlannedRunReturned
  /\ FindVar(vars_, RootScope, "X") # NullScope
  /\ memory_size(vars_, TensorOf("X")) = 0
  /\ cluster_buffer_ = <<TensorOf("t1")>>
  /\ produced[TensorOf("t1")] = 2

----------------------------------------------------------------------------
(* MakeReusePlan, lines 255-292 *)

\* The keys of the table whose variable and target variable are both dense
\* tensors found from scope_.
Usable(table) ==
  {n \in DOMAIN table :
     /\ IsDenseOut(vars_, scope_, n)
     /\ IsDenseOut(vars_, scope_, table[n])}

Restrict(f, K) == [n \in K |-> f[n]]

\* The subsequence of seq with the elements in S.
Filter(seq, S) == SelectSeq(seq, LAMBDA x : x \in S)

\* The names some operator of the list writes.
AllOuts == UNION {{ops_[o].outs[k] : k \in 1..Len(ops_[o].outs)} : o \in 1..Len(ops_)}

\* The table without the entries of operator outputs that are not usable.
WithoutSkipped(table) ==
  Restrict(table, {n \in DOMAIN table : n \in AllOuts => n \in Usable(table)})

\* The plan the call would have made from the given table and order.
PlanOf(table, cluster_names) ==
  PlanFrom([cb    |-> Resize(cluster_buffer_, Len(cluster_names)),
            cache |-> reuse_cache_],
           table, cluster_names, 1, 1)

\* No tensor is recorded for an output the table maps unusably.
NothingForUnusable(table) ==
  \A o \in DOMAIN reuse_cache_' : \A t \in DOMAIN reuse_cache_'[o] :
    \E k \in 1..Len(ops_[o].outs) :
      /\ ops_[o].outs[k] \in Usable(table)
      /\ t = vars_[FindVar(vars_, scope_, ops_[o].outs[k])][ops_[o].outs[k]].obj

\* C13 as stated: MakeReusePlan returns normally, records nothing for an
\* output whose variable or target is missing or not a dense tensor, and
\* records for the other outputs what it records from the table without
\* those entries.
PlanAsIfEntryAbsent ==
  [][lastCall'.api = "MakeReusePlan" =>
       LET table    == lastCall'.block
           rest     == WithoutSkipped(table)
       IN  /\ lastCall'.result = "ok"
           /\ NothingForUnusable(table)
           /\ reuse_cache_' =
                PlanOf(rest, Filter(lastCall'.scope, Targets(rest))).cache]_vars

\* C13, amended: MakeReusePlan returns normally and records nothing for
\* such an output; for the other outputs it records the tensors, and groups
\* them into clusters, as the table without those entries would, but the
\* target of a skipped entry keeps its cluster id: the ids and the cluster
\* buffer are those of the table without the entries planned over all the
\* targets of the full table, and the slot of a target no recorded entry
\* names is unset.
PlanSkipsUnusable ==
  [][lastCall'.api = "MakeReusePlan" =>
       LET table == lastCall'.block
           rest  == WithoutSkipped(table)
           plan  == PlanOf(rest, lastCall'.scope)
       IN  /\ lastCall'.result = "ok"
           /\ NothingForUnusable(table)
           /\ reuse_cache_' = plan.cache
           /\ cluster_buffer_' = plan.cb
           /\ Len(cluster_buffer_') = Cardinality(Targets(table))
           /\ \A i \in DOMAIN cluster_buffer_' :
                cluster_buffer_'[i] = Null <=>
                  ~\E n \in Usable(table) \cap AllOuts :
                      table[n] = lastCall'.scope[i]]_vars

\* A plan was made from a table with a usable entry that was recorded and
\* an entry for an operator output that was skipped.
WitnessPlanSkipped ==
  /\ pc = "done" /\ lastCall.api = "MakeReusePlan"
  /\ reuse_cache_ # << >>
  /\ \E n \in (DOMAIN lastCall.block) \cap AllOuts : n \notin Usable(lastCall.block)

----------------------------------------------------------------------------
(* Operator failure inside Run(), lines 101-153 *)

\* The calls Run() makes for operator i when it does not fail.
FullCallsOf(i) ==
  [k \in 1..Len(input_hookfuncs_) |-> <<"in", input_hookfuncs_[k], i>>]
    \o << <<"run", 0, i>>, <<"reuse", 0, i>> >>
    \o [k \in 1..Len(output_hookfuncs_) |-> <<"out", output_hookfuncs_[k], i>>]

\* The hook, run and bookkeeping calls in a log, without their arguments.
CallsIn(l) ==
  [k \in 1..Len(SelectSeq(l, LAMBDA e : e.kind \in {"in", "run", "reuse", "out"})) |->
     LET e == SelectSeq(l, LAMBDA x : x.kind \in {"in", "run", "reuse", "out"})[k]
     IN  <<e.kind, e.hook, e.op>>]

\* C14: when the operator at position cur fails, Run() ends there with the
\* error: the operators before it have each had their input hooks, run,
\* bookkeeping and output hooks once, the failing operator has had its
\* input hooks only, no later operator has had anything, and the scope and
\* the cluster state are those the earlier operators left.
FailureStopsRun ==
  [][(pc = "exec" /\ lastCall'.api = "Run" /\ lastCall'.result = "error") =>
       /\ pc' = "done"
       /\ CallsIn(log') =
            Flatten([i \in 1..(cur - 1) |-> FullCallsOf(i)])
              \o [k \in 1..Len(input_hookfuncs_) |-> <<"in", input_hookfuncs_[k], cur>>]
       /\ vars_' = vars_
       /\ cluster_buffer_' = cluster_buffer_
       /\ reuse_cache_' = reuse_cache_
       /\ \A t \in DOMAIN produced :
            Tensor(vars_', t).buf # Null /\ Tensor(vars_', t).dims > 0]_vars

\* The second operator failed after the first one produced its tensor and
\* had its bookkeeping and output hook.
WitnessSecondOpFailed ==
  /\ pc = "done" /\ lastCall.api = "Run" /\ lastCall.result = "error"
  /\ cur = 2 /\ Len(ops_) = 2
  /\ output_hookfuncs_ # << >>
  /\ reuse_cache_ # << >>
  /\ TensorOf("t1") \in DOMAIN produced
  /\ Tensor(vars_, TensorOf("t1")).dims > 0

----------------------------------------------------------------------------
(* Hook lists: lines 106-113 and 227-239 *)

IsControlFlow(op) == op.type = "while" \/ op.type = "conditional_block"

\* What Run() does with operator i up to and including its execution.
UpToRunOf(i) ==
  [k \in 1..Len(input_hookfuncs_) |-> Ev("in", input_hookfuncs_[k], i)]
    \o (IF IsControlFlow(ops_[i])
          THEN <<EvArg("set_out_hooks", 0, i, output_hookfuncs_),
                 EvArg("set_in_hooks", 0, i, input_hookfuncs_)>>
          ELSE << >>)
    \o <<Ev("run", 0, i)>>

\* C15: in every Run(), a while or conditional_block operator is handed
\* the executor's whole output-hook list and whole input-hook list after
\* its input hooks were called and before it is executed, and an operator
\* of another type is handed no hook list.
ControlFlowOpsGetHookLists ==
  \A i \in 1..Len(ops_) :
    LET seen == SelectSeq(log, LAMBDA e :
                  e.op = i /\ e.kind \in {"in", "set_out_hooks", "set_in_hooks", "run"})
    IN  /\ IsPrefix(seen, UpToRunOf(i))
        /\ (\E k \in 1..Len(log) : log[k] = Ev("run", 0, i)) => seen = UpToRunOf(i)

\* A while operator has been executed in a Run() with two input hooks and
\* an output hook registered.
WitnessWhileGotHooks ==
  /\ RunReturned
  /\ Len(input_hookfuncs_) = 2 /\ Len(output_hookfuncs_) >= 1
  /\ \E i \in 1..Len(ops_) :
       /\ ops_[i].type = "while"
       /\ \E k \in 1..Len(log) :
            log[k] = EvArg("set_in_hooks", 0, i, input_hookfuncs_)
  /\ \E i \in 1..Len(ops_) : ~IsControlFlow(ops_[i])

\* The hooks called for operator i in the log, by kind.
HooksCalled(l, kind, i) ==
  [k \in 1..Len(SelectSeq(l, LAMBDA e : e.kind = kind /\ e.op = i)) |->
     SelectSeq(l, LAMBDA e : e.kind = kind /\ e.op = i)[k].hook]

\* C16: a registration appends the hook to its list and leaves the other
\* list, the operator list, the scope and the reuse plan alone; the lists
\* do not change while Run() is under way, and a Run() that returns has
\* called, for every operator, exactly the hooks registered before it
\* began: none registered after it, and every one registered before it.
RegistrationAppends ==
  [][/\ lastCall'.api = "RegisterInputHook" =>
          /\ Len(input_hookfuncs_') = Len(input_hookfuncs_) + 1
          /\ SubSeq(input_hookfuncs_', 1, Len(input_hookfuncs_)) = input_hookfuncs_
          /\ UNCHANGED <<output_hookfuncs_, ops_, scope_, reuse_cache_,
                         cluster_buffer_, vars_>>
     /\ lastCall'.api = "RegisterOutputHook" =>
          /\ Len(output_hookfuncs_') = Len(output_hookfuncs_) + 1
          /\ SubSeq(output_hookfuncs_', 1, Len(output_hookfuncs_)) = output_hookfuncs_
          /\ UNCHANGED <<input_hookfuncs_, ops_, scope_, reuse_cache_,
                         cluster_buffer_, vars_>>
     /\ lastCall'.api \in {"RegisterInputHook", "RegisterOutputHook"} => log = << >>
     /\ InRun => UNCHANGED <<input_hookfuncs_, output_hookfuncs_>>
     /\ (lastCall'.api = "Run" /\ lastCall'.result = "ok") =>
          \A i \in 1..Len(ops_) :
            /\ HooksCalled(log', "in", i) = input_hookfuncs_
            /\ HooksCalled(log', "out", i) = output_hookfuncs_]_vars

\* A second input hook has just been registered after a Run() over two or
\* more operators that called the first one.
WitnessRegisteredBetweenRuns ==
  /\ pc = "done" /\ lastCall.api = "RegisterInputHook"
  /\ runsDone = 1 /\ ~failed
  /\ Len(ops_) >= 2
  /\ Len(input_hookfuncs_) = 2

----------------------------------------------------------------------------
(* FindTensor, lines 215-225, and calls made before Prepare *)

FindTensorFailed ==
  lastCall'.api = "FindTensor" /\ lastCall'.result # "ok"

\* C17 as stated: FindTensor fails with a not-found error when scope_ is
\* null and when the name is not found from scope_, with the name in the
\* message in the second case, and a failing call creates and modifies no
\* variable.
FindTensorFailsNotFound ==
  [][lastCall'.api = "FindTensor" =>
       /\ (scope_ = NullScope \/ FindVar(vars_, scope_, lastCall'.block) = NullScope) =>
            lastCall'.result = "NotFound"
       /\ (scope_ # NullScope /\ FindVar(vars_, scope_, lastCall'.block) = NullScope) =>
            lastCall'.scope = <<lastCall'.block>>
       /\ FindTensorFailed => UNCHANGED <<vars_, scopes>>]_vars

\* C17, amended: FindTensor fails with a precondition-not-met error, which
\* names no variable, when scope_ is null, and with a not-found error
\* carrying the requested name when no variable of that name is found from
\* scope_; a failing call creates and modifies no variable.
FindTensorFailsByCause ==
  [][lastCall'.api = "FindTensor" =>
       /\ scope_ = NullScope =>
            lastCall'.result = "PreconditionNotMet" /\ lastCall'.scope = << >>
       /\ (scope_ # NullScope /\ FindVar(vars_, scope_, lastCall'.block) = NullScope) =>
            lastCall'.result = "NotFound" /\ lastCall'.scope = <<lastCall'.block>>
       /\ FindTensorFailed => UNCHANGED <<vars_, scopes>>]_vars

\* FindTensor("Z") has failed on a scope that holds other variables.
WitnessNameNotFound ==
  /\ pc = "done" /\ lastCall.api = "FindTensor"
  /\ lastCall.result = "NotFound" /\ lastCall.block = "Z"
  /\ scope_ # NullScope
  /\ \E n \in Names : FindVar(vars_, scope_, n) # NullScope

\* C18 as stated: Run(), MakeReusePlan and FindTensor called on an executor
\* on which Prepare was never called end in a precondition-violation error.
UseBeforePrepareFails ==
  [][(scope_ = NullScope /\ ops_ = << >>
        /\ lastCall'.api \in {"Run", "MakeReusePlan", "FindTensor"}) =>
       lastCall'.result = "PreconditionNotMet"]_vars

----------------------------------------------------------------------------
(* Prepare, lines 37-56 *)

\* C19: a Prepare call with a null scope argument makes scope_ a scope
\* that did not exist before, has no parent and holds no variable; with a
\* non-null argument it makes scope_ that scope and creates no scope; in
\* both cases no variable of any scope is created or modified.
PrepareSetsScope ==
  [][lastCall'.api \in {"Prepare", "PrepareScope"} =>
       /\ IF lastCall'.scope = NullScope
            THEN /\ scope_' \notin scopes
                 /\ scopes' = scopes \cup {scope_'}
                 /\ parent(scope_') = NullScope
                 /\ \A n \in Names : vars_'[scope_'][n] = NoVar
            ELSE /\ scope_' = lastCall'.scope
                 /\ scopes' = scopes
       /\ vars_' = vars_]_vars

\* Prepare was given a null scope while the caller's root scope holds
\* variables, and built the two operators of the block.
WitnessPrepareOwnScope ==
  /\ pc = "done" /\ lastCall.api = "Prepare" /\ lastCall.scope = NullScope
  /\ scope_ \notin CallerScopes /\ scope_ # NullScope
  /\ Len(ops_) = 2
  /\ \E n \in Names : vars_[RootScope][n] # NoVar

\* C20 as stated: every Prepare(scope, program, block_id) call leaves as
\* operator list exactly one operator per non-feed/fetch descriptor of the
\* block it was given, in declaration order.
PrepareReplacesOps ==
  [][lastCall'.api = "Prepare" =>
       ops_' = CreateOps(<< >>, lastCall'.block)]_vars

----------------------------------------------------------------------------
(* Two executor instances on scopes of their own, lines 92-157 *)

\* Instance e, whichever thread is running.
ExecOf(e) == IF other.who = e THEN Me ELSE other.parked

ScopeOf(e) == IF e = 1 THEN RootScope ELSE OtherRoot

RunReturnedIn(ex) ==
  ex.pc = "done" /\ ex.lastCall.api = "Run" /\ ex.lastCall.result = "ok"

\* The hook calls in a log: <<kind, hook, operator position>>.
HookCallsIn(l) ==
  [k \in 1..Len(SelectSeq(l, LAMBDA e : e.kind \in {"in", "out"})) |->
     LET e == SelectSeq(l, LAMBDA x : x.kind \in {"in", "out"})[k]
     IN  <<e.kind, e.hook, e.op>>]

\* The cluster buffer an instance has before its Run(): the seeds of its plan.
SeedsOf(ex) ==
  IF ex.cluster_buffer_ = << >> THEN << >>
  ELSE <<VarsTwo[ex.scope_]["X"].obj>>

\* Run() of one instance with no step of the other in between, from
\* operator o on; st = [vs, cb, calls].
RECURSIVE SeqRunFrom(_, _, _, _)
SeqRunFrom(st, ex, script, o) ==
  IF o > Len(ex.ops_) THEN st
  ELSE LET ran == OpRun(st.vs, ex.scope_, ex.ops_[o], script[o])
           upd == IF o \in DOMAIN ex.reuse_cache_
                    THEN UpdateClusters([cb |-> st.cb, vs |-> ran], ex.reuse_cache_, o,
                                        CHOOSE q \in Orders(DOMAIN ex.reuse_cache_[o]) : TRUE,
                                        1)
                    ELSE [cb |-> st.cb, vs |-> ran]
       IN  SeqRunFrom(
             [vs    |-> upd.vs,
              cb    |-> upd.cb,
              calls |-> st.calls
                          \o [k \in 1..Len(ex.input_hookfuncs_) |->
                                <<"in", ex.input_hookfuncs_[k], o>>]
                          \o [k \in 1..Len(ex.output_hookfuncs_) |->
                                <<"out", ex.output_hookfuncs_[k], o>>]],
             ex, script, o + 1)

SeqRun(e, vs) ==
  SeqRunFrom([vs |-> vs, cb |-> SeedsOf(ExecOf(e)), calls |-> << >>],
             ExecOf(e), other.script[e], 1)

\* Instance e has what the sequential execution r gives it.
SameAs(e, r) ==
  /\ vars_[ScopeOf(e)] = r.vs[ScopeOf(e)]
  /\ ExecOf(e).cluster_buffer_ = r.cb
  /\ HookCallsIn(ExecOf(e).log) = r.calls

\* C21: whatever the interleaving of the steps of the two Run() calls, an
\* instance whose Run() has returned has the scope contents, cluster
\* buffers and hook calls of its Run() executed alone, and when both have
\* returned the scopes, cluster buffers and hook calls are those of the two
\* Run() calls executed one after the other, in either order.
InterleavedRunsAsSequential ==
  /\ \A e \in {1, 2} :
       RunReturnedIn(ExecOf(e)) => SameAs(e, SeqRun(e, VarsTwo))
  /\ (RunReturnedIn(ExecOf(1)) /\ RunReturnedIn(ExecOf(2))) =>
       /\ SameAs(1, SeqRun(1, VarsTwo))
       /\ SameAs(2, SeqRun(2, SeqRun(1, VarsTwo).vs))
       /\ vars_ = SeqRun(2, SeqRun(1, VarsTwo).vs).vs
       /\ SameAs(2, SeqRun(2, VarsTwo))
       /\ SameAs(1, SeqRun(1, SeqRun(2, VarsTwo).vs))
       /\ vars_ = SeqRun(1, SeqRun(2, VarsTwo).vs).vs

\* Both Run() calls have returned after the threads were switched while
\* both were inside Run(); both instances had a plan and the canonical
\* buffer of each is a tensor its own operators produced.
WitnessInterleavedRuns ==
  /\ RunReturnedIn(ExecOf(1)) /\ RunReturnedIn(ExecOf(2))
  /\ other.mixed
  /\ \A e \in {1, 2} :
       /\ Len(ExecOf(e).cluster_buffer_) = 1
       /\ ExecOf(e).cluster_buffer_[1] # VarsTwo[ScopeOf(e)]["X"].obj
  /\ vars_[RootScope]["t1"].msize # vars_[OtherRoot]["t1"].msize

----------------------------------------------------------------------------
(* RunInterpreterCore, lines 78-90 *)

\* C22: RunInterpreterCore on an executor with an interpreter attached
\* makes exactly one call, Run on the interpreter, with the feed names, the
\* fetch flag and the stream-switch flag it was given; it executes no
\* operator of the executor, calls no hook of the executor, and leaves the
\* operator list, the hook lists, the reuse plan, the cluster buffers and
\* the attached interpreter as they were.
RunInterpreterCoreOnlyDelegates ==
  [][(lastCall'.api = "RunInterpreterCore" /\ interpreter_core_.attached) =>
       /\ log' = <<EvArg("interpreter_run", 0, 0,
                         <<lastCall'.scope, lastCall'.block[1], FALSE, FALSE,
                           lastCall'.block[2]>>)>>
       /\ execCount' = execCount
       /\ runsDone' = runsDone
       /\ UNCHANGED <<scope_, ops_, input_hookfuncs_, output_hookfuncs_,
                      reuse_cache_, cluster_buffer_, interpreter_core_>>]_vars

\* RunInterpreterCore(["x"], true, false) has returned on an executor that
\* has operators, a hook of each kind, a reuse plan and a Run() behind it.
WitnessDelegated ==
  /\ pc = "done" /\ lastCall.api = "RunInterpreterCore" /\ lastCall.result = "ok"
  /\ interpreter_core_.attached
  /\ lastCall.scope = <<"x">> /\ lastCall.block = <<TRUE, FALSE>>
  /\ Len(ops_) = 2 /\ runsDone = 1
  /\ input_hookfuncs_ # << >> /\ output_hookfuncs_ # << >>
  /\ reuse_cache_ # << >> /\ cluster_buffer_ # << >>

----------------------------------------------------------------------------
(* Steady state of the clusters, lines 124-148 *)

\* Run() has returned at least twice; the last one was at steady state.
SteadyRunReturned == RunReturned /\ runsDone >= 2 /\ cluster_buffer_ # << >>

Aliases(t, u) ==
  Tensor(vars_, t).buf = Tensor(vars_, u).buf /\ Tensor(vars_, t).buf # Null

----------------------------------------------------------------------------
(* Subviews of a span: TEST(subview, span), TEST(pointer_length_ctor, span) *)

----------------------------------------------------------------------------
(* Order of the steps of Run() for one operator, lines 101-153 *)

\* Everything Run() does with operator i, in the order of the loop body.
OrderOf(i) ==
  <<Ev("flag", 0, i)>>
    \o [k \in 1..Len(input_hookfuncs_) |-> Ev("in", input_hookfuncs_[k], i)]
    \o (IF IsControlFlow(ops_[i])
          THEN <<EvArg("set_out_hooks", 0, i, output_hookfuncs_),
                 EvArg("set_in_hooks", 0, i, input_hookfuncs_)>>
          ELSE << >>)
    \o <<Ev("run", 0, i), Ev("reuse", 0, i)>>
    \o [k \in 1..Len(output_hookfuncs_) |-> Ev("out", output_hookfuncs_[k], i)]

\* The steps taken for operator i so far, without the outcome of the
\* bookkeeping.
StepsOf(i) ==
  [k \in 1..Len(SelectSeq(log, LAMBDA e : e.op = i)) |->
     LET e == SelectSeq(log, LAMBDA x : x.op = i)[k]
     IN  IF e.kind = "reuse" THEN Ev("reuse", 0, i) ELSE e]

\* C25: within one Run() the steps for each operator are, in this order:
\* clear the called-by-executor flag, call the input hooks, hand the hook
\* lists to a control-flow operator, execute the operator, update the
\* cluster bookkeeping, call the output hooks; operators are not
\* interleaved; and when the output hooks of an operator are called, no
\* tensor recorded for it is larger than its cluster's canonical tensor and
\* every cluster that got a new canonical tensor for it has all its tensors
\* on that tensor's buffer.
StepsInFixedOrder ==
  (InRun \/ RunReturned) =>
    /\ \A j, k \in 1..Len(log) : j < k => log[j].op <= log[k].op
    /\ \A i \in 1..Len(ops_) :
         /\ IsPrefix(StepsOf(i), OrderOf(i))
         /\ (i < cur \/ RunReturned) => StepsOf(i) = OrderOf(i)
    /\ (pc = "out" /\ cur \in DOMAIN reuse_cache_) =>
         \A t \in DOMAIN reuse_cache_[cur] :
           LET id == reuse_cache_[cur][t]
               c  == cluster_buffer_[id + 1]
           IN  /\ memory_size(vars_, t) <= memory_size(vars_, c)
               /\ log[Len(log)].arg[id + 1] =>
                    \A u \in ClusterTensors(reuse_cache_, id) :
                      Tensor(vars_, u).buf = Tensor(vars_, c).buf

\* The output hooks of the while operator are about to be called after its
\* tensor became the canonical tensor of its cluster; earlier operators have
\* had all their steps.
WitnessHooksSeeUpdatedCluster ==
  /\ pc = "out" /\ cur = 3 /\ IsControlFlow(ops_[cur])
  /\ Len(output_hookfuncs_) = 2 /\ Len(input_hookfuncs_) = 1
  /\ cur \in DOMAIN reuse_cache_
  /\ \E i \in DOMAIN cluster_buffer_ : log[Len(log)].arg[i]
  /\ \E t \in DOMAIN reuse_cache_[cur] :
       cluster_buffer_[reuse_cache_[cur][t] + 1] = t
  /\ StepsOf(1) = OrderOf(1)

----------------------------------------------------------------------------
(* Cluster ids of one MakeReusePlan call, lines 255-275 *)

\* The only planning call on this executor has just returned.
FirstPlanMade ==
  /\ reuse_cache_ = << >> /\ cluster_buffer_ = << >>
  /\ lastCall'.api = "MakeReusePlan"

\* The tensors recorded in a cache and the cluster ids recorded for one.
RecordedIn(cache) == UNION {DOMAIN cache[o] : o \in DOMAIN cache}

IdsOf(cache, t) ==
  {cache[o][t] : o \in {p \in DOMAIN cache : t \in DOMAIN cache[p]}}

\* The name of the variable that holds tensor t, found from scope_.
NameOf(t) ==
  CHOOSE n \in Names :
    IsDenseOut(vars_, scope_, n) /\ vars_[FindVar(vars_, scope_, n)][n].obj = t

\* C26: after one MakeReusePlan(table) call with k distinct target names,
\* each target has one cluster id in 0..k-1 and each id in 0..k-1 belongs to
\* one target, there are exactly k buffer slots, every recorded tensor has
\* exactly one cluster id, that of the target of its table entry, and two
\* recorded tensors have the same id exactly when their entries name the
\* same target.
ClusterIdsMatchTargets ==
  [][FirstPlanMade =>
       LET table == lastCall'.block
           names == lastCall'.scope
           k     == Cardinality(Targets(table))
           id(t) == CHOOSE i \in IdsOf(reuse_cache_', t) : TRUE
       IN  /\ Len(names) = k
           /\ \A T \in Targets(table) :
                Cardinality({i \in 0..(k - 1) : names[i + 1] = T}) = 1
           /\ \A i \in 0..(k - 1) : names[i + 1] \in Targets(table)
           /\ Len(cluster_buffer_') = k
           /\ \A t \in RecordedIn(reuse_cache_') :
                /\ Cardinality(IdsOf(reuse_cache_', t)) = 1
                /\ id(t) \in 0..(k - 1)
                /\ NameOf(t) \in DOMAIN table
                /\ names[id(t) + 1] = table[NameOf(t)]
           /\ \A t, u \in RecordedIn(reuse_cache_') :
                id(t) = id(u) <=> table[NameOf(t)] = table[NameOf(u)]]_vars

\* A plan over two targets has recorded three tensors, two of them in one
\* cluster and the third in the other.
WitnessTwoClusters ==
  /\ pc = "done" /\ lastCall.api = "MakeReusePlan"
  /\ Len(cluster_buffer_) = 2
  /\ Cardinality(RecordedIn(reuse_cache_)) = 3
  /\ \E t, u \in RecordedIn(reuse_cache_) :
       t # u /\ IdsOf(reuse_cache_, t) = IdsOf(reuse_cache_, u)
  /\ \E t, u \in RecordedIn(reuse_cache_) :
       IdsOf(reuse_cache_, t) # IdsOf(reuse_cache_, u)

----------------------------------------------------------------------------
(* Entries and seeds of one MakeReusePlan call, lines 268-291 *)

\* The output names of operator o the call records an entry for.
RecordedNames(table, o) ==
  {n \in Usable(table) : \E k \in 1..Len(ops_[o].outs) : ops_[o].outs[k] = n}

\* The tensor of the variable named n, found from scope_.
ObjOf(n) == vars_[FindVar(vars_, scope_, n)][n].obj

\* C27: a MakeReusePlan call on an executor without a plan records, for
\* each operator, an entry (tensor, cluster id) exactly for its output
\* names that are keys of the table and whose variable and target variable
\* are both dense tensors found from the scope; a cluster with a recorded
\* entry has the target variable's own tensor as its buffer, and a cluster
\* without one has an unset slot.
PlanRecordsUsableOutputs ==
  [][FirstPlanMade =>
       LET table == lastCall'.block
           names == lastCall'.scope
       IN  /\ DOMAIN reuse_cache_' =
                {o \in 1..Len(ops_) : RecordedNames(table, o) # {}}
           /\ \A o \in DOMAIN reuse_cache_' :
                /\ DOMAIN reuse_cache_'[o] =
                     {ObjOf(n) : n \in RecordedNames(table, o)}
                /\ \A n \in RecordedNames(table, o) :
                     names[reuse_cache_'[o][ObjOf(n)] + 1] = table[n]
           /\ \A i \in DOMAIN cluster_buffer_' :
                IF \E t \in RecordedIn(reuse_cache_') :
                     (i - 1) \in IdsOf(reuse_cache_', t)
                  THEN /\ IsDenseOut(vars_, scope_, names[i])
                       /\ cluster_buffer_'[i] = ObjOf(names[i])
                  ELSE cluster_buffer_'[i] = Null]_vars

\* A plan recorded an entry for each of two operators, skipped an output
\* that is a key of the table, seeded one cluster with its target's tensor
\* and left another cluster unset.
WitnessSeededAndUnset ==
  /\ pc = "done" /\ lastCall.api = "MakeReusePlan"
  /\ DOMAIN reuse_cache_ = {1, 2}
  /\ \E n \in (DOMAIN lastCall.block) \cap AllOuts : n \notin Usable(lastCall.block)
  /\ \E i \in DOMAIN cluster_buffer_ : cluster_buffer_[i] = Null
  /\ \E i \in DOMAIN cluster_buffer_ :
       /\ cluster_buffer_[i] # Null
       /\ cluster_buffer_[i] = ObjOf(lastCall.scope[i])

----------------------------------------------------------------------------
(* Declarations CreateVariables passes over, lines 178-200 *)

\* C28: CreateVariables(desc, block, persistable, scope) creates or
\* re-initializes a variable only for a declaration whose name is not the
\* reserved empty name and whose persistence flag equals persistable: in
\* every scope, a variable the call changed is declared so, no variable
\* with the empty name exists, and a name declared only with the other
\* persistence value is as it was.
CreateSkipsOtherDeclarations ==
  [][lastCall'.api = "CreateVariables" =>
       LET b == lastCall'.block
           p == lastCall'.persistable
       IN  \A s \in ScopeIds :
             /\ Touched(s) \subseteq Declared(b, p)
             /\ vars_'[s][kEmptyVarName] = NoVar
             /\ \A n \in Declared(b, ~p) \ Declared(b, p) :
                  vars_'[s][n] = vars_[s][n]]_vars

\* CreateVariables(persistable = false) over block 2 has made "x" in the
\* scope it was given and left the persistent "w", which the caller had
\* filled, and "v" alone; block 2 also declares the empty name with each
\* persistence value.
WitnessOtherDeclarationsSkipped ==
  /\ CreateVariablesDone
  /\ lastCall.block = 2 /\ ~lastCall.persistable
  /\ vars_[lastCall.scope]["x"] # NoVar
  /\ vars_[RootOf(lastCall.scope)]["w"].buf # Null
  /\ vars_[RootOf(lastCall.scope)]["v"] # NoVar
  /\ lastCall.scope # RootOf(lastCall.scope)
  /\ \A s \in ScopeIds : vars_[s][kEmptyVarName] = NoVar

----------------------------------------------------------------------------
(* The dispatch on the action name in ParseOpPatches, lines 217-263 *)

\* The six names the branches before the rename branch take.
NamedBefore == AttrActions \cup OutputAttrActions

\* The rename entry of an action, and the column the claim puts it in.
RenameEntry(action) == [NAME |-> action.object, NEW_NAME |-> action.default]

RenameColumn(action) ==
  IF action.action = "modify_attr_name" THEN "ATTRS" ELSE "OPRESULTS_ATTRS"

\* The actions of a parsed op whose names the earlier branches do not take.
OtherActions(node) ==
  {j \in 1..Len(node.actions) : node.actions[j].action \notin NamedBefore}

\* The entries of a column that have a NEW_NAME, in order.
RenamesIn(res, col) ==
  SelectSeq(res.patch[col], LAMBDA e : "NEW_NAME" \in DOMAIN e)

\* The rename entries the actions of a node call for in a column, in order.
RenamesFor(node, col) ==
  Flatten([j \in 1..Len(node.actions) |->
             IF j \in OtherActions(node) /\ RenameColumn(node.actions[j]) = col
               THEN <<RenameEntry(node.actions[j])>> ELSE << >>])

\* Every action of the node that one of the first two branches takes has
\* what that branch converts.
AttrActionsConvert(node) ==
  \A j \in 1..Len(node.actions) :
    node.actions[j].action \in NamedBefore =>
      IsScalar(node.actions[j].object) /\ node.actions[j].default # SequenceNode

\* C29 as stated: every action whose name is not one of the six is handled
\* as a rename, with an entry (old name, NEW_NAME) in the attribute column
\* when the name is modify_attr_name and in the op-result-attribute column
\* otherwise, and the branches for input actions, output actions and
\* modify_output_type are never reached.
OtherActionsBecomeRenames ==
  applied.fn = "ParseOpPatches" =>
    \A i \in 1..Len(applied.s) :
      LET node == applied.s[i]
          res  == applied.value[i]
      IN  AttrActionsConvert(node) =>
            /\ res.status = "ok"
            /\ \A j \in 1..Len(res.branches) :
                 /\ j \in OtherActions(node) <=> res.branches[j] = "rename"
                 /\ res.branches[j] \in {"attr", "output_attr", "rename"}
            /\ \A col \in {"ATTRS", "OPRESULTS_ATTRS"} :
                 RenamesIn(res, col) = RenamesFor(node, col)
            /\ res.patch["OPRESULTS"] = << >>

\* C29, amended: every such action takes the rename branch and the
\* branches for input actions, output actions and modify_output_type are
\* never reached; when the object and the default of every such action are
\* scalars, each gets its rename entry in the column its name selects, and
\* when one of them lacks a scalar object or a scalar default,
\* ParseOpPatches ends with a conversion exception at the first such action
\* and no patch is returned.
OtherActionsTakeRenameBranch ==
  applied.fn = "ParseOpPatches" =>
    \A i \in 1..Len(applied.s) :
      LET node == applied.s[i]
          res  == applied.value[i]
          bad  == {j \in OtherActions(node) :
                     ~IsScalar(node.actions[j].object)
                       \/ ~IsScalar(node.actions[j].default)}
      IN  /\ \A j \in 1..Len(res.branches) :
               /\ j \in OtherActions(node) <=> res.branches[j] = "rename"
               /\ res.branches[j] \in {"attr", "output_attr", "rename"}
          /\ res.patch["OPRESULTS"] = << >>
          /\ AttrActionsConvert(node) =>
               /\ bad = {} =>
                    /\ res.status = "ok"
                    /\ Len(res.branches) = Len(node.actions)
                    /\ \A col \in {"ATTRS", "OPRESULTS_ATTRS"} :
                         RenamesIn(res, col) = RenamesFor(node, col)
               /\ bad # {} =>
                    /\ res.status = BadConversion
                    /\ Len(res.branches) = CHOOSE j \in bad : \A k \in bad : j <= k
                    /\ \A col \in {"ATTRS", "OPRESULTS_ATTRS"} :
                         IsPrefix(RenamesIn(res, col), RenamesFor(node, col))

\* An add_input action and a modify_attr_name action with scalar objects
\* and defaults were parsed: the first became a rename in the
\* op-result-attribute column, the second a rename in the attribute column.
WitnessInputActionRenamed ==
  /\ applied.fn = "ParseOpPatches"
  /\ \E i \in 1..Len(applied.s) :
       /\ Len(applied.s[i].actions) = 2
       /\ applied.s[i].actions[1].action = "add_input"
       /\ applied.s[i].actions[2].action = "modify_attr_name"
       /\ applied.value[i].status = "ok"
       /\ applied.value[i].branches = <<"rename", "rename">>
       /\ applied.value[i].patch["OPRESULTS_ATTRS"] = <<[NAME |-> "0", NEW_NAME |-> "b"]>>
       /\ applied.value[i].patch["ATTRS"] = <<[NAME |-> "0", NEW_NAME |-> "b"]>>

----------------------------------------------------------------------------
(* Run() without a growth event, lines 124-148 and 277-288 *)

\* Tensor t shares the allocation of tensor u in the scopes vs.
AliasesIn(vs, t, u) ==
  Tensor(vs, t).buf = Tensor(vs, u).buf /\ Tensor(vs, t).buf # Null

\* No tensor recorded for the operator just run is strictly larger than its
\* cluster's canonical tensor.
NoGrowthNow == \A i \in DOMAIN cluster_buffer_ : ~Growth(i)

\* The bookkeeping steps of the Run() so far that replaced a canonical tensor.
GrowthEvents ==
  SelectSeq(log, LAMBDA e :
    e.kind = "reuse" /\ \E i \in DOMAIN e.arg : e.arg[i])

\* C30: aliasing is established only by growth events.  The update step
\* for an operator none of whose recorded tensors is strictly larger than
\* its cluster's canonical tensor changes no canonical tensor and no
\* tensor's storage, and in no step of Run() other than an update with
\* growth does a recorded tensor that did not share the canonical tensor's
\* allocation come to share it; so a Run() without growth leaves the
\* canonical tensors as they were and aliases nothing to them.
NoGrowthNoNewAliasing ==
  [][(InRun /\ (pc = "reuse" => NoGrowthNow)) =>
       /\ cluster_buffer_' = cluster_buffer_
       /\ pc = "reuse" => vars_' = vars_
       /\ \A o \in DOMAIN reuse_cache_ : \A t \in DOMAIN reuse_cache_[o] :
            LET c == cluster_buffer_[reuse_cache_[o][t] + 1]
            IN  (t # c /\ ~AliasesIn(vars_, t, c)) => ~AliasesIn(vars_', t, c)]_vars

\* A Run() with two operators in the plan has returned without a growth
\* event: X, filled by the caller before planning, is still the canonical
\* tensor of its cluster, the operators produced tensors no larger than it,
\* one of them as large, and none of them shares its allocation.
WitnessRunWithoutGrowth ==
  /\ RunReturned /\ runsDone = 1
  /\ GrowthEvents = << >>
  /\ Len(cluster_buffer_) = 1 /\ cluster_buffer_[1] = TensorOf("X")
  /\ DOMAIN reuse_cache_ = {1, 2}
  /\ \A o \in DOMAIN reuse_cache_ : \A t \in DOMAIN reuse_cache_[o] :
       /\ Tensor(vars_, t).buf # Null
       /\ ~AliasesIn(vars_, t, cluster_buffer_[1])
  /\ \E o \in DOMAIN reuse_cache_ : \E t \in DOMAIN reuse_cache_[o] :
       memory_size(vars_, t) = memory_size(vars_, cluster_buffer_[1])

----------------------------------------------------------------------------
(* Recorded cluster ids and buffer slots, lines 125-147 and 255-292 *)

\* Every recorded entry names a slot cluster_buffer_ has, and the slot is set.
EntriesHaveSetSlots ==
  \A o \in DOMAIN reuse_cache_ : \A t \in DOMAIN reuse_cache_[o] :
    /\ reuse_cache_[o][t] \in 0..(Len(cluster_buffer_) - 1)
    /\ cluster_buffer_[reuse_cache_[o][t] + 1] # Null

\* C31: after a single MakeReusePlan call on a prepared executor, in every
\* state reached by any number of Run() calls, every recorded entry
\* (tensor, cluster id) has 0 <= id < number of buffer slots and the slot at
\* that id is set, so the update step of Run() reads no unset and no
\* out-of-range slot.
SinglePlanEntriesHaveSetSlots ==
  /\ EntriesHaveSetSlots
  /\ (pc = "reuse" /\ cur \in DOMAIN reuse_cache_) =>
       \A t \in DOMAIN reuse_cache_[cur] :
         /\ reuse_cache_[cur][t] + 1 \in DOMAIN cluster_buffer_
         /\ cluster_buffer_[reuse_cache_[cur][t] + 1] \in
              {TensorOf("X")} \cup RecordedIn(reuse_cache_)

\* The update step of a second Run() is about to read the slot of a cluster
\* whose canonical tensor the first Run() replaced.
WitnessSecondRunReadsSlot ==
  /\ pc = "reuse" /\ runsDone = 1 /\ ~failed
  /\ cur \in DOMAIN reuse_cache_
  /\ \E t \in DOMAIN reuse_cache_[cur] :
       cluster_buffer_[reuse_cache_[cur][t] + 1] = t

----------------------------------------------------------------------------
(* Planning more than once, lines 255-292 and 124-148 *)

\* C32: after any sequence of MakeReusePlan calls on one executor, with the
\* same or with different reuse tables and with Run() calls in between,
\* every recorded entry (tensor, cluster id) has an id that is a valid index
\* of a set buffer slot and that is the id the latest call assigned to the
\* target name of the tensor, and no call resets a cluster's canonical
\* tensor to a tensor smaller than the one the cluster held before the call.
ReplanKeepsPlanConsistent ==
  [][/\ \A o \in DOMAIN reuse_cache_' : \A t \in DOMAIN reuse_cache_'[o] :
          /\ reuse_cache_'[o][t] \in 0..(Len(cluster_buffer_') - 1)
          /\ cluster_buffer_'[reuse_cache_'[o][t] + 1] # Null
     /\ lastCall'.api = "MakeReusePlan" =>
          LET table == lastCall'.block
              names == lastCall'.scope
          IN  /\ \A o \in DOMAIN reuse_cache_' : \A t \in DOMAIN reuse_cache_'[o] :
                   NameOf(t) \in DOMAIN table =>
                     /\ reuse_cache_'[o][t] + 1 \in DOMAIN names
                     /\ names[reuse_cache_'[o][t] + 1] = table[NameOf(t)]
              /\ \A i \in (DOMAIN cluster_buffer_) \cap (DOMAIN cluster_buffer_') :
                   (cluster_buffer_[i] # Null /\ cluster_buffer_'[i] # Null) =>
                     memory_size(vars_, cluster_buffer_'[i])
                       >= memory_size(vars_, cluster_buffer_[i])]_vars

----------------------------------------------------------------------------
(* Hook lists of the delegated interpreter, lines 58-76 and 227-239 *)

\* C33: whenever an interpreter is attached, the input and output hook
\* lists it holds equal the executor's own lists, whatever the order of the
\* PrepareInterpreterCore and RegisterInputHook / RegisterOutputHook calls
\* was.
InterpreterHoldsExecutorHooks ==
  interpreter_core_.attached =>
    /\ interpreter_core_.in_hooks = input_hookfuncs_
    /\ interpreter_core_.out_hooks = output_hookfuncs_

----------------------------------------------------------------------------
(* FindTensor from a child scope, lines 215-225 and 169-192 *)

\* The scope k parent links above s, 0 past the end of the chain.
RECURSIVE Up(_, _)
Up(s, k) == IF k = 0 \/ s = NullScope THEN s ELSE Up(parent(s), k - 1)

AncestorsOrSelf(s) ==
  {Up(s, k) : k \in 0..Cardinality(ScopeIds)} \ {NullScope}

Descendants(s) == {t \in ScopeIds \ {s} : s \in AncestorsOrSelf(t)}

Siblings(s) ==
  {t \in ScopeIds \ {s} : parent(t) # NullScope /\ parent(t) = parent(s)}

Holders(n) == {s \in ScopeIds : vars_[s][n].kind # "none"}

\* The scope without a parent above s, found by following parent links
\* from the scopes that reach it.
TopOf(s) == CHOOSE a \in AncestorsOrSelf(s) : parent(a) = NullScope

\* C34: when scope_ is a child scope and CreateVariables(desc, block,
\* persistent = true, scope_) has created a dense-tensor variable of that
\* name in the root scope, FindTensor(name) succeeds and returns the root
\* scope's tensor; a name that only sibling or descendant scopes of scope_
\* hold is reported as not found, with the name in the message.
FindTensorWalksAncestors ==
  [][(lastCall'.api = "FindTensor" /\ scope_ # NullScope) =>
       LET name == lastCall'.block
       IN  /\ ( /\ parent(scope_) \notin {NullScope, scope_}
                /\ <<2, TRUE, scope_>> \in cvDone
                /\ \E k \in DOMAIN Desc[2].vars :
                     /\ Desc[2].vars[k].name = name
                     /\ Desc[2].vars[k].persistable
                     /\ Desc[2].vars[k].kind = "dense" ) =>
                  /\ lastCall'.result = "ok"
                  /\ FindTensorValue(name) = <<TopOf(scope_), name>>
                  /\ vars_[TopOf(scope_)][name].kind = "dense"
           /\ ( /\ Holders(name) # {}
                /\ Holders(name) \subseteq Siblings(scope_) \cup Descendants(scope_) ) =>
                  /\ lastCall'.result = "NotFound"
                  /\ lastCall'.scope = <<name>>]_vars

\* The executor is on MidScope; CreateVariables(desc, 2, true, MidScope) has
\* put w in RootScope and FindTensor("w") has returned it, while x, held
\* by the sibling and by the child of MidScope only, would not be found.
WitnessFoundInRootNotInSibling ==
  /\ pc = "done" /\ lastCall.api = "FindTensor" /\ lastCall.block = "w"
  /\ lastCall.result = "ok"
  /\ scope_ = MidScope
  /\ <<2, TRUE, MidScope>> \in cvDone
  /\ FindTensorValue("w") = <<RootScope, "w">>
  /\ Holders("x") = {SiblingScope, LeafScope}
  /\ FindTensorResult("x") = "NotFound"

----------------------------------------------------------------------------
(* The walk to the ancestor scope, lines 169-176 *)

\* The parent chain of s is finite and acyclic: it ends at a scope without
\* a parent.
Acyclic(s) == \E a \in AncestorsOrSelf(s) : parent(a) = NullScope

CreateVariablesReturning ==
  lastCall'.api = "CreateVariables" /\ lastCall.api # "CreateVariables"

\* C35: a CreateVariables call on a non-null scope whose parent chain is
\* finite and acyclic returns; the scope it uses for persistent variables
\* is the one ancestor without a parent (the scope itself when it has no
\* parent); the self-parent check rejects a non-null scope exactly when it
\* is directly its own parent.
CreateVariablesWalkEnds ==
  /\ [][CreateVariablesReturning =>
          LET sc == lastCall'.scope
          IN  /\ lastCall'.result = "InvalidArgument" <=>
                   (sc = NullScope \/ parent(sc) = sc)
              /\ lastCall'.result = "ok" =>
                   /\ Acyclic(sc)
                   /\ Cardinality({a \in AncestorsOrSelf(sc) :
                                     parent(a) = NullScope}) = 1
                   /\ applied.anc = TopOf(sc)
                   /\ parent(sc) = NullScope => applied.anc = sc
                   /\ lastCall'.persistable =>
                        /\ \A s \in ScopeIds \ {TopOf(sc)} : vars_'[s] = vars_[s]
                        /\ \A k \in DOMAIN Desc[lastCall'.block].vars :
                             LET vd == Desc[lastCall'.block].vars[k]
                             IN  (vd.persistable /\ vd.name # kEmptyVarName) =>
                                   vars_'[TopOf(sc)][vd.name].kind # "none"]_vars
  /\ \A sc \in ScopeIds :
       (pc = "walk" /\ applied.fn = "CreateVariables" /\ applied.scope = sc
          /\ Acyclic(sc)) ~> (pc = "done" /\ lastCall.scope = sc)

\* CreateVariables(desc, 2, true, LeafScope) has walked two parent links and
\* returned with the persistable variables in RootScope and none in
\* LeafScope or MidScope.
WitnessWalkedToRoot ==
  /\ pc = "done" /\ lastCall.api = "CreateVariables" /\ lastCall.result = "ok"
  /\ lastCall.scope = LeafScope /\ lastCall.persistable /\ ~lastCall.again
  /\ vars_[RootScope]["w"].kind = "dense"
  /\ vars_[MidScope]["w"] = NoVar /\ vars_[LeafScope]["w"] = NoVar

----------------------------------------------------------------------------
(* The grid-stride loop of NAdamGPUKernel *)

KernelRecord == applied.fn = "NAdamGPUKernel"

\* C36 as stated: for every positive grid and block dimension, and so for
\* the launch by NAdamKernel, no element index outside [0, num) is ever
\* processed, no index is processed more than once, and when the kernel
\* has ended every index in [0, num) has been processed exactly once.
EveryIndexOnce ==
  KernelRecord =>
    /\ \A i \in Ints :
         /\ applied.count[i] <= 1
         /\ i \notin 0..(applied.num - 1) => applied.count[i] = 0
    /\ (pc = "done" /\ lastCall.api = "NAdamKernel") =>
         /\ lastCall.result = "ok"
         /\ \A i \in 0..(applied.num - 1) : applied.count[i] = 1

====
